---- MODULE Spec2Model ----
(***************************************************************************)
(* Touch-gesture and swipe-physics core of ionic-angular:                  *)
(*   - PanGesture (gestures/drag-gesture.js): two controllers that share   *)
(*     one GestureController (capture arbitration);                        *)
(*   - ItemSliding (components/item/item-sliding.js): the sliding-item     *)
(*     drag state machine.                                                 *)
(* Lengths of the sliding item are integers in units of 1/ELASTIC_DEN px,  *)
(* so that the elastic factor 0.55 = 11/20 is computed exactly.            *)
(* Velocities are integers in units of 0.1 px/ms.                          *)
(***************************************************************************)
EXTENDS Integers, Sequences, FiniteSets, TLC

VARIABLES
    \* ---- PanGesture, one entry per controller ----
    started,        \* this.started
    captured,       \* this.captured
    isListening,    \* this.isListening
    gestute,        \* this.gestute is non-null
    hasDetector,    \* this.detector exists (opts.threshold > 0)
    tracking,       \* move/up listeners of this.pointerEvents are registered
    writeTask,      \* sample held by the pending debouncer write, 0 = none
    detDirty,       \* detector.dirty
    detPan,         \* detector._isPan
    priority,       \* priority of the controller's gesture delegate
    gc,             \* the shared GestureController
    op,             \* the last operation and its inputs
    cb,             \* consumer callbacks fired by the last operation
    refused,        \* a capture attempt of the current pointer session was refused
    \* ---- ItemSliding ----
    openAmount,     \* this._openAmount
    startX,         \* this._startX
    optsWidthRightSide, \* this._optsWidthRightSide
    optsWidthLeftSide,  \* this._optsWidthLeftSide
    timer,          \* this._timer: handle of the auto-disable timeout, 0 = null
    timers,         \* handles of the timeouts pending in the event loop
    due,            \* pending timeouts whose 600ms delay has elapsed
    optsDirty,      \* this._optsDirty
    state,          \* this._state
    sides,          \* this._sides
    leftOptions,    \* this._leftOptions is set
    rightOptions,   \* this._rightOptions is set
    armed,          \* the operation that started the timeout of this._timer
    rafs,           \* number of pending calculateOptsWidth frame callbacks
    dragging,       \* a drag is in progress (startSliding .. endSliding)
    sop,            \* the last ItemSliding operation, its inputs and result
    swipes,         \* ionSwipe notifications fired by the last operation
    \* ---- ScrollView ----
    svJs,           \* this._js: synthetic (JS) scrolling instead of native
    svScrolling,    \* this.isScrolling
    svT,            \* this._t in 1/100 px, cut towards zero
    svVel,          \* ev.velocityY in 1/100 px per frame, cut towards zero
    svFine,         \* _t, velocityY and scrollTop as the code's numbers
    svPos,          \* positions: <<[p, age]>>, p a number, age in ticks
    svEndTmr,       \* frames left of the scroll-end debounce, 0 = no timer
    svMax,          \* max of enableJsScroll in 1/100 px, 0 = null or 0
    svRead,         \* the DomController holds the read task rafCancel
    svOld,          \* max of each pending read task of an earlier closure
    svWrite,        \* the DomController holds the write task of a touch-move
    svStale,        \* the pending read task predates the last touch-start
    svTouches,      \* touch-starts so far
    svCalls,        \* calls of setTop, enableJsScroll, enableNativeScrolling
    svQuiet,        \* frames since the last scroll event, up to END_FRAMES
    svEl,           \* this._el is not null
    svElTop,        \* element.scrollTop in 1/100 px, cut towards zero
    svEcho,         \* setTop has moved the element: a scroll event is due
    anims,          \* the scrollTo calls so far and their step loops
    svop,           \* the last ScrollView step and its input
    semit,          \* notifications emitted by the last step
    svOpen,         \* history: a scroll-start was emitted and no scroll-end since
    \* ---- RadioGroup and its RadioButtons ----
    rgValue,        \* group.value
    rgInit,         \* group._init
    rgBtns,         \* group._btns, the buttons in the order they were added
    rbMade,         \* the buttons constructed so far
    rbInit,         \* the buttons whose ngOnInit has run
    rbValue,        \* button._value
    rbChecked,      \* button._checked
    rdop,           \* the last radio operation and its button
    \* ---- Platform ----
    bbActions,      \* platform._bbActions: <<[id, priority]>>
    bbIds,          \* back button actions registered so far
    bbGone,         \* actions whose unregister function has been called
    bbRan,          \* the actions the last operation has run
    plop            \* the last Platform operation

panVars == <<started, captured, isListening, gestute, hasDetector, tracking,
             writeTask, detDirty, detPan, priority, gc, op, cb, refused>>
slideVars == <<openAmount, startX, optsWidthRightSide, optsWidthLeftSide,
               timer, timers, due, optsDirty, state, sides, leftOptions,
               rightOptions, armed, rafs, dragging, sop, swipes>>
scrollVars == <<svJs, svScrolling, svT, svVel, svFine, svPos, svEndTmr, svMax,
                svRead, svOld, svWrite, svStale, svTouches, svCalls, svQuiet,
                svElTop, svEcho, svop, semit>>
animVars == <<svEl, anims>>
radioVars == <<rgValue, rgInit, rgBtns, rbMade, rbInit, rbValue, rbChecked,
               rdop>>
platVars == <<bbActions, bbIds, bbGone, bbRan, plop>>
vars == <<panVars, slideVars, scrollVars, animVars, radioVars, platVars,
          svOpen>>

(***************************************************************************)
(* Bounds                                                                  *)
(***************************************************************************)
MaxSample == 2      \* pointer samples are 1..MaxSample
MaxPriority == 1    \* gesture priorities are 0..MaxPriority
MaxCoord == 6       \* pointer x coordinates are 0 .. 25 * MaxCoord px
MaxVel == 4         \* release velocities are within -MaxVel..MaxVel tenths of px/ms
MaxRaf == 2         \* pending calculateOptsWidth frame callbacks
MaxPos == 3         \* samples the positions buffer holds in the model
MaxBurst == 51      \* numbers the positions array holds in one long burst
MaxTouch == 2       \* touch-starts of a run
MaxCall == 1        \* calls of the application that set offset or mode
MaxRadio == 3       \* radio buttons of the group are 1..MaxRadio
MaxBack == 3        \* back button actions registered in a run

Ctl == {1, 2}
Samples == 1..MaxSample
Priorities == 0..MaxPriority
NoId == 0
NoPrio == -1

Max(S) == CHOOSE m \in S : \A n \in S : n <= m
Abs(n) == IF n < 0 THEN -n ELSE n

(***************************************************************************)
(* GestureController / GestureDelegate (gestures/gesture-controller.js)    *)
(* g = [capturedID, requestedStart, log]; log lists the delegate calls of  *)
(* the current operation as <<call, id, result>>.                          *)
(***************************************************************************)
GcInit == [capturedID |-> NoId,
           requestedStart |-> [i \in Ctl |-> NoPrio],
           log |-> <<>>]

GcCanStart(g) == g.capturedID = NoId

GcStartCore(g, id, p) ==
    IF ~GcCanStart(g)
    THEN [g |-> [g EXCEPT !.requestedStart[id] = NoPrio], ok |-> FALSE]
    ELSE [g |-> [g EXCEPT !.requestedStart[id] = p], ok |-> TRUE]

GcStart(g, id, p) ==
    LET s == GcStartCore(g, id, p)
    IN  [g |-> [s.g EXCEPT !.log = Append(@, <<"start", id, s.ok>>)],
         ok |-> s.ok]

GcCaptureCore(g, id, p) ==
    LET s == GcStartCore(g, id, p)
        maxPriority == Max({NoPrio} \cup
                           {s.g.requestedStart[i] : i \in Ctl})
    IN  IF ~s.ok THEN s
        ELSE IF maxPriority = p
        THEN [g |-> [s.g EXCEPT !.capturedID = id,
                                !.requestedStart = [i \in Ctl |-> NoPrio]],
              ok |-> TRUE]
        ELSE [g |-> [s.g EXCEPT !.requestedStart[id] = NoPrio], ok |-> FALSE]

GcCapture(g, id, p) ==
    LET s == GcCaptureCore(g, id, p)
    IN  [g |-> [s.g EXCEPT !.log = Append(@, <<"capture", id, s.ok>>)],
         ok |-> s.ok]

GcRelease(g, id) ==
    [g EXCEPT !.requestedStart[id] = NoPrio,
              !.capturedID = IF @ = id THEN NoId ELSE @,
              !.log = Append(@, <<"release", id, TRUE>>)]

\* the delegate calls of the current operation start from an empty log
GcFresh == [gc EXCEPT !.log = <<>>]

(***************************************************************************)
(* PanGesture                                                              *)
(***************************************************************************)
\* pointerDown's first early return
DownIgnoredNever(c) == FALSE
DownIgnored(c) == started[c]

\* tryToCapture's refusal test; capOk is the result of gestute.capture()
TryRefusedNever(hasGestute, capOk) == FALSE
TryRefused(hasGestute, capOk) == hasGestute /\ ~capOk

\* tryToCapture(ev) from arbiter state g:
\* [ok, g, captured, cbs]
TryToCapture(g, c, ev) ==
    LET cap == IF gestute[c] THEN GcCapture(g, c, priority[c])
               ELSE [g |-> g, ok |-> TRUE]
    IN  IF TryRefused(gestute[c], cap.ok)
        THEN [ok |-> FALSE, g |-> cap.g, captured |-> captured[c],
              cbs |-> <<>>]
        ELSE [ok |-> TRUE, g |-> cap.g, captured |-> TRUE,
              cbs |-> << <<"onDragStart", ev>> >>]

\* the flags abort() leaves behind
AbortStartedKept(c) == started[c]
AbortStarted(c) == FALSE

\* pointerUp's choice of the consumer callback
UpCallbackSwapped(isCaptured) ==
    IF isCaptured THEN "notCaptured" ELSE "onDragEnd"
UpCallback(isCaptured) ==
    IF isCaptured THEN "onDragEnd" ELSE "notCaptured"

\* pointerUp's this.debouncer.cancel(): the pending write task after it
UpCancelSkipped(task) == task
UpCancel(task) == 0

\* pointerUp's release of the delegate
UpReleaseSkipped(g, c) == g
UpRelease(g, c) == IF gestute[c] THEN GcRelease(g, c) ELSE g

PanInit ==
    /\ started = [c \in Ctl |-> FALSE]
    /\ captured = [c \in Ctl |-> FALSE]
    /\ isListening = [c \in Ctl |-> FALSE]
    /\ gestute = [c \in Ctl |-> TRUE]
    /\ hasDetector \in [Ctl -> BOOLEAN]
    /\ tracking = [c \in Ctl |-> FALSE]
    /\ writeTask = [c \in Ctl |-> 0]
    /\ detDirty = [c \in Ctl |-> FALSE]
    /\ detPan = [c \in Ctl |-> 0]
    /\ priority \in [Ctl -> Priorities]
    /\ gc = GcInit
    /\ op = [name |-> "new", c |-> 0, ev |-> 0, in |-> "", ret |-> ""]
    /\ cb = <<>>
    /\ refused = [c \in Ctl |-> FALSE]

Listen(c) ==
    /\ isListening' = [isListening EXCEPT ![c] = TRUE]
    /\ gc' = GcFresh
    /\ op' = [name |-> "listen", c |-> c, ev |-> 0, in |-> "", ret |-> ""]
    /\ cb' = <<>>
    /\ UNCHANGED <<started, captured, gestute, hasDetector, tracking,
                   writeTask, detDirty, detPan, priority, refused>>

Unlisten(c) ==
    /\ IF ~isListening[c]
       THEN /\ gc' = GcFresh
            /\ UNCHANGED <<tracking, isListening>>
       ELSE /\ gc' = IF gestute[c] THEN GcRelease(GcFresh, c) ELSE GcFresh
            /\ tracking' = [tracking EXCEPT ![c] = FALSE]
            /\ isListening' = [isListening EXCEPT ![c] = FALSE]
    /\ op' = [name |-> "unlisten", c |-> c, ev |-> 0, in |-> "", ret |-> ""]
    /\ cb' = <<>>
    /\ UNCHANGED <<started, captured, gestute, hasDetector, writeTask,
                   detDirty, detPan, priority, refused>>

Destroy(c) ==
    /\ gc' = IF gestute[c] THEN GcRelease(GcFresh, c) ELSE GcFresh
    /\ gestute' = [gestute EXCEPT ![c] = FALSE]
    /\ tracking' = [tracking EXCEPT ![c] = FALSE]
    /\ isListening' = [isListening EXCEPT ![c] = FALSE]
    /\ op' = [name |-> "destroy", c |-> c, ev |-> 0, in |-> "", ret |-> ""]
    /\ cb' = <<>>
    /\ UNCHANGED <<started, captured, hasDetector, writeTask, detDirty,
                   detPan, priority, refused>>

\* pointerDown(ev); can is the result of the consumer's canStart(ev)
PointerDown(c, ev, can) ==
    /\ isListening[c]
    /\ LET g1 == IF gestute[c] THEN GcRelease(GcFresh, c) ELSE GcFresh
           st == IF gestute[c] THEN GcStart(g1, c, priority[c])
                 ELSE [g |-> g1, ok |-> TRUE]
           try == TryToCapture(st.g, c, ev)
           inp == IF can THEN "canStart" ELSE "cannotStart"
       IN  IF DownIgnored(c)
           THEN /\ gc' = GcFresh
                /\ cb' = <<>>
                /\ op' = [name |-> "pointerDown", c |-> c, ev |-> ev,
                          in |-> inp, ret |-> "undefined"]
                /\ UNCHANGED <<started, captured, tracking, detDirty, detPan,
                               refused>>
           ELSE IF ~can
           THEN /\ gc' = GcFresh
                /\ cb' = <<>>
                /\ op' = [name |-> "pointerDown", c |-> c, ev |-> ev,
                          in |-> inp, ret |-> "false"]
                /\ UNCHANGED <<started, captured, tracking, detDirty, detPan,
                               refused>>
           ELSE IF ~st.ok
           THEN /\ gc' = st.g
                /\ cb' = <<>>
                /\ op' = [name |-> "pointerDown", c |-> c, ev |-> ev,
                          in |-> inp, ret |-> "false"]
                /\ UNCHANGED <<started, captured, tracking, detDirty, detPan,
                               refused>>
           ELSE IF hasDetector[c]
           THEN /\ gc' = st.g
                /\ started' = [started EXCEPT ![c] = TRUE]
                /\ captured' = [captured EXCEPT ![c] = FALSE]
                /\ detDirty' = [detDirty EXCEPT ![c] = TRUE]
                /\ detPan' = [detPan EXCEPT ![c] = 0]
                /\ tracking' = [tracking EXCEPT ![c] = TRUE]
                /\ refused' = [refused EXCEPT ![c] = FALSE]
                /\ cb' = <<>>
                /\ op' = [name |-> "pointerDown", c |-> c, ev |-> ev,
                          in |-> inp, ret |-> "true"]
           ELSE IF ~try.ok
           THEN /\ gc' = GcRelease(try.g, c)
                /\ started' = [started EXCEPT ![c] = FALSE]
                /\ captured' = [captured EXCEPT ![c] = FALSE]
                /\ refused' = [refused EXCEPT ![c] = TRUE]
                /\ cb' = try.cbs
                /\ op' = [name |-> "pointerDown", c |-> c, ev |-> ev,
                          in |-> inp, ret |-> "false"]
                /\ UNCHANGED <<tracking, detDirty, detPan>>
           ELSE /\ gc' = try.g
                /\ started' = [started EXCEPT ![c] = TRUE]
                /\ captured' = [captured EXCEPT ![c] = try.captured]
                /\ tracking' = [tracking EXCEPT ![c] = TRUE]
                /\ refused' = [refused EXCEPT ![c] = FALSE]
                /\ cb' = try.cbs
                /\ op' = [name |-> "pointerDown", c |-> c, ev |-> ev,
                          in |-> inp, ret |-> "true"]
                /\ UNCHANGED <<detDirty, detPan>>
    /\ UNCHANGED <<isListening, gestute, hasDetector, writeTask, priority>>

\* The recognizer's verdict on a sample: "below" the threshold, or beyond it
\* with pan direction -1, 0 or 1.
Verdicts == {"below", "pan-", "pan0", "pan+"}
PanOf(v) == CASE v = "pan-" -> -1 [] v = "pan+" -> 1 [] OTHER -> 0

\* pointerMove's test of the detected direction: detector.pan() !== 0
PanAttemptsAlways(pan) == TRUE
PanAttempts(pan) == pan # 0

\* pointerMove(ev); v is what the recognizer makes of the sample
PointerMove(c, ev, v) ==
    /\ tracking[c]
    /\ captured[c] \/ hasDetector[c]
    /\ LET detected == detDirty[c] /\ v # "below"
           pan == IF detected THEN PanOf(v) ELSE detPan[c]
           try == TryToCapture(GcFresh, c, ev)
       IN  IF captured[c]
           THEN /\ writeTask' = [writeTask EXCEPT
                                   ![c] = IF @ = 0 THEN ev ELSE @]
                /\ gc' = GcFresh
                /\ cb' = <<>>
                /\ UNCHANGED <<started, captured, tracking, detDirty, detPan,
                               refused>>
           ELSE /\ detDirty' = [detDirty EXCEPT ![c] = @ /\ ~detected]
                /\ detPan' = [detPan EXCEPT ![c] = pan]
                /\ UNCHANGED writeTask
                /\ IF detected /\ PanAttempts(pan)
                   THEN IF try.ok
                        THEN /\ gc' = try.g
                             /\ captured' = [captured EXCEPT
                                               ![c] = try.captured]
                             /\ cb' = try.cbs
                             /\ UNCHANGED <<started, tracking, refused>>
                        ELSE \* abort(ev)
                             /\ gc' = GcRelease(try.g, c)
                             /\ started' = [started EXCEPT
                                              ![c] = AbortStarted(c)]
                             /\ captured' = [captured EXCEPT ![c] = FALSE]
                             /\ tracking' = [tracking EXCEPT ![c] = FALSE]
                             /\ refused' = [refused EXCEPT ![c] = TRUE]
                             /\ cb' = << <<"notCaptured", ev>> >>
                   ELSE /\ gc' = GcFresh
                        /\ cb' = <<>>
                        /\ UNCHANGED <<started, captured, tracking, refused>>
    /\ op' = [name |-> "pointerMove", c |-> c, ev |-> ev, in |-> v,
              ret |-> ""]
    /\ UNCHANGED <<isListening, gestute, hasDetector, priority>>

\* the write phase runs the debouncer's pending task: onDragMove(ev)
WritePhase(c) ==
    /\ writeTask[c] # 0
    /\ writeTask' = [writeTask EXCEPT ![c] = 0]
    /\ cb' = << <<"onDragMove", writeTask[c]>> >>
    /\ gc' = GcFresh
    /\ op' = [name |-> "write", c |-> c, ev |-> writeTask[c], in |-> "",
              ret |-> ""]
    /\ UNCHANGED <<started, captured, isListening, gestute, hasDetector,
                   tracking, detDirty, detPan, priority, refused>>

PointerUp(c, ev) ==
    /\ tracking[c]
    /\ tracking' = [tracking EXCEPT ![c] = FALSE]
    /\ writeTask' = [writeTask EXCEPT ![c] = UpCancel(@)]
    /\ gc' = UpRelease(GcFresh, c)
    /\ cb' = << <<UpCallback(captured[c]), ev>> >>
    /\ captured' = [captured EXCEPT ![c] = FALSE]
    /\ started' = [started EXCEPT ![c] = FALSE]
    /\ op' = [name |-> "pointerUp", c |-> c, ev |-> ev,
              in |-> IF writeTask[c] # 0 THEN "pending" ELSE "", ret |-> ""]
    /\ UNCHANGED <<isListening, gestute, hasDetector, detDirty, detPan,
                   priority, refused>>

PanNext ==
    \/ \E c \in Ctl : Listen(c)
    \/ \E c \in Ctl : Unlisten(c)
    \/ \E c \in Ctl : Destroy(c)
    \/ \E c \in Ctl, ev \in Samples, can \in BOOLEAN : PointerDown(c, ev, can)
    \/ \E c \in Ctl, ev \in Samples, v \in Verdicts : PointerMove(c, ev, v)
    \/ \E c \in Ctl : WritePhase(c)
    \/ \E c \in Ctl, ev \in Samples : PointerUp(c, ev)


(***************************************************************************)
(* ItemSliding                                                             *)
(***************************************************************************)
SWIPE_MARGIN == 30      \* px
ELASTIC_NUM == 11       \* ELASTIC_FACTOR = 0.55 = ELASTIC_NUM / ELASTIC_DEN
ELASTIC_DEN == 20
FAST_TENTHS == 3        \* Math.abs(velocity) > 0.3
AUTO_DISABLE_MS == 600

Px(n) == n * ELASTIC_DEN             \* n px in model units

STATE_DISABLED == 2
STATE_ENABLED == 4
STATE_RIGHT == 8
STATE_LEFT == 16
STATE_SWIPE_RIGHT == 32
STATE_SWIPE_LEFT == 64
SIDE_UNDEFINED == -1    \* this._sides before the first _itemOptions
SIDE_NONE == 0
SIDE_LEFT == 1
SIDE_RIGHT == 2
SIDE_BOTH == 3
MaxPanel == 2           \* panels of a query list

HasBit(s, b) == (s \div b) % 2 = 1

Coords == {Px(25 * i) : i \in {0, 1, 3, MaxCoord}}   \* pointer x coordinates
Widths == {Px(0), Px(80)}                    \* offsetWidth of an options panel
Velocities == {0 - MaxVel, 0, FAST_TENTHS, MaxVel}
SideInputs == {"", "left", "right"}          \* the side input of a panel
PanelLists ==                                \* itemOptions.toArray()
    UNION {[1..n -> SideInputs] : n \in 0..MaxPanel}

\* ItemOptions.getSides() of a panel whose side input is a
GetSides(a) == IF a = "left" THEN SIDE_LEFT ELSE SIDE_RIGHT

\* s | t of two sides
SidesOr(s, t) ==
    (IF HasBit(s, SIDE_LEFT) \/ HasBit(t, SIDE_LEFT) THEN SIDE_LEFT ELSE 0)
    + (IF HasBit(s, SIDE_RIGHT) \/ HasBit(t, SIDE_RIGHT) THEN SIDE_RIGHT
       ELSE 0)

\* set _itemOptions: the loop over the panels ps[i..], acc what the panels
\* before them have left: [sides, left, right]
RECURSIVE OptionsLoop(_, _, _)
OptionsLoop(ps, i, acc) ==
    IF i > Len(ps) THEN acc
    ELSE OptionsLoop(ps, i + 1,
             [sides |-> SidesOr(acc.sides, GetSides(ps[i])),
              left |-> acc.left \/ GetSides(ps[i]) = SIDE_LEFT,
              right |-> acc.right \/ GetSides(ps[i]) # SIDE_LEFT])

\* util.swipeShouldReset
SwipeShouldReset(isResetDirection, isMovingFast, isOnResetZone) ==
    (~isMovingFast /\ isOnResetZone) \/ (isResetDirection /\ isMovingFast)

\* moveSliding: the switch on this._sides
ClampSides(s, o) ==
    CASE s = SIDE_RIGHT -> IF o > 0 THEN o ELSE 0
      [] s = SIDE_LEFT -> IF o < 0 THEN o ELSE 0
      [] OTHER -> o

\* moveSliding: elastic resistance beyond the panel widths
ElasticOff(o, wR, wL) == o
Elastic(o, wR, wL) ==
    IF o > wR
    THEN wR + ((o - wR) * ELASTIC_NUM) \div ELASTIC_DEN
    ELSE IF o < 0 - wL
    THEN (0 - wL) + ((o - (0 - wL)) * ELASTIC_NUM) \div ELASTIC_DEN
    ELSE o

\* _setOpenAmount, not final: the state a drag offset o selects (cur if o = 0)
DragStateNoSwipe(o, wR, wL, cur) ==
    IF o > 0 THEN STATE_RIGHT ELSE IF o < 0 THEN STATE_LEFT ELSE cur
DragState(o, wR, wL, cur) ==
    IF o > 0
    THEN IF o >= wR + Px(SWIPE_MARGIN)
         THEN STATE_RIGHT + STATE_SWIPE_RIGHT ELSE STATE_RIGHT
    ELSE IF o < 0
    THEN IF o <= (0 - wL) - Px(SWIPE_MARGIN)
         THEN STATE_LEFT + STATE_SWIPE_LEFT ELSE STATE_LEFT
    ELSE cur

\* endSliding: is the offset o short of the halfway point of resting point rp
IsOnCloseZoneNever(o, rp) == FALSE
IsOnCloseZone(o, rp) == 2 * Abs(o) < Abs(rp)

\* endSliding: the resting point for offset o and velocity v (tenths)
RestingPointKeep(o, v, wR, wL) == o
RestingPoint(o, v, wR, wL) ==
    LET restingPoint == IF o > 0 THEN wR ELSE 0 - wL
        isResetDirection == (o > 0) = ~(v < 0)
        isMovingFast == Abs(v) > FAST_TENTHS
        isOnCloseZone == IsOnCloseZone(o, restingPoint)
    IN  IF SwipeShouldReset(isResetDirection, isMovingFast, isOnCloseZone)
        THEN 0 ELSE restingPoint

\* fireSwipeEvent
FireSwipe(st) ==
    IF HasBit(st, STATE_SWIPE_RIGHT) THEN <<"right">>
    ELSE IF HasBit(st, STATE_SWIPE_LEFT) THEN <<"left">>
    ELSE <<>>

\* fireSwipeEvent: the panel whose ionSwipe it reads is not set, and the
\* read throws a TypeError
SwipeThrows(st, left, right) ==
    IF HasBit(st, STATE_SWIPE_RIGHT) THEN ~right
    ELSE HasBit(st, STATE_SWIPE_LEFT) /\ ~left

\* nativeTimeout: a handle that no pending timeout uses
NewHandle(pending) == CHOOSE h \in 1..(Cardinality(pending) + 1) :
                          h \notin pending /\ \A k \in 1..(h - 1) : k \in pending

\* clearNativeTimeout(this._timer) if a handle is held
ClearTimerSkipped(t, pending) == pending
ClearTimer(t, pending) == IF t # 0 THEN pending \ {t} ELSE pending

\* startSliding: is the item fully closed, so that widths and state are reset
StartResetsAlways(o) == TRUE
StartResets(o) == o = 0

\* startSliding: the drag origin for pointer x and current offset o
StartXOf(x, o) == x + o

\* calculateOptsWidth: the frame callback's early return
FrameSkipsNever(dirty) == FALSE
FrameSkips(dirty) == ~dirty

\* the quotient a / b of getSlidingPercent; for a non-zero a and b = 0
\* JavaScript yields an infinity, which is not finite
Quotient(a, b) == [num |-> a, den |-> b, finite |-> b # 0]

\* getSlidingPercent()
GetSlidingPercent ==
    IF openAmount > 0 THEN Quotient(openAmount, optsWidthRightSide)
    ELSE IF openAmount < 0 THEN Quotient(openAmount, optsWidthLeftSide)
    ELSE [num |-> 0, den |-> 1, finite |-> TRUE]

\* _setOpenAmount starts the auto-disable timeout when the new offset is 0
ArmsTimeoutNever(o) == FALSE
ArmsTimeout(o) == o = 0

\* _setOpenAmount(o, isFinal): [openAmount, state, timer, timers, kept];
\* kept are the timeouts that were pending before and still are
SetOpenAmount(o, isFinal) ==
    LET cleared == ClearTimer(timer, timers)
        st == IF isFinal THEN state
              ELSE DragState(o, optsWidthRightSide, optsWidthLeftSide, state)
        h == NewHandle(cleared)
    IN  [openAmount |-> o,
         state |-> st,
         timer |-> IF ArmsTimeout(o) THEN h ELSE 0,
         timers |-> IF ArmsTimeout(o) THEN cleared \cup {h} ELSE cleared,
         kept |-> cleared]

\* the record of an ItemSliding operation that has run from this state
SlideOp(name, x, v, ret) ==
    [name |-> name, x |-> x, v |-> v, pre |-> openAmount, ret |-> ret,
     skipped |-> FALSE, had |-> "", threw |-> FALSE]

SlideInit ==
    /\ openAmount = 0
    /\ startX = 0
    /\ optsWidthRightSide = 0
    /\ optsWidthLeftSide = 0
    /\ timer = 0
    /\ timers = {}
    /\ due = {}
    /\ optsDirty = TRUE
    /\ state = STATE_DISABLED
    /\ sides = SIDE_UNDEFINED
    /\ leftOptions = FALSE
    /\ rightOptions = FALSE
    /\ armed = ""
    /\ rafs = 0
    /\ dragging = FALSE
    /\ sop = [name |-> "new", x |-> 0, v |-> 0, pre |-> 0, ret |-> 0,
              skipped |-> FALSE, had |-> "", threw |-> FALSE]
    /\ swipes = <<>>

\* set _itemOptions(itemOptions), ps the side inputs of the panels of the
\* query list: a panel replaces the one held for its side, and a panel that
\* has left the list stays held
SetItemOptions(ps) ==
    /\ LET r == OptionsLoop(ps, 1, [sides |-> SIDE_NONE,
                                    left |-> leftOptions,
                                    right |-> rightOptions])
       IN  /\ sides' = r.sides
           /\ leftOptions' = r.left
           /\ rightOptions' = r.right
    /\ optsDirty' = TRUE
    /\ sop' = SlideOp("itemOptions", 0, 0, 0)
    /\ swipes' = <<>>
    /\ UNCHANGED <<openAmount, startX, optsWidthRightSide, optsWidthLeftSide,
                   timer, timers, due, state, armed, rafs, dragging>>

StartSliding(x) ==
    /\ ~dragging
    /\ dragging' = TRUE
    /\ timer' = 0
    /\ timers' = ClearTimer(timer, timers)
    /\ due' = due \cap timers'
    /\ armed' = ""
    /\ IF StartResets(openAmount)
       THEN optsDirty' = TRUE /\ state' = STATE_ENABLED
       ELSE UNCHANGED <<optsDirty, state>>
    /\ startX' = StartXOf(x, openAmount)
    /\ sop' = [SlideOp("startSliding", x, 0, 0) EXCEPT !.had = armed]
    /\ swipes' = <<>>
    /\ UNCHANGED <<openAmount, optsWidthRightSide, optsWidthLeftSide, sides,
                   leftOptions, rightOptions, rafs>>

MoveSliding(x) ==
    /\ dragging
    /\ IF optsDirty
       THEN /\ rafs < MaxRaf
            /\ rafs' = rafs + 1
            /\ sop' = [SlideOp("moveSliding", x, 0, 0) EXCEPT !.skipped = TRUE]
            /\ UNCHANGED <<openAmount, state, timer, timers, due, armed>>
       ELSE LET o == Elastic(ClampSides(sides, startX - x),
                             optsWidthRightSide, optsWidthLeftSide)
                n == SetOpenAmount(o, FALSE)
            IN  /\ openAmount' = n.openAmount
                /\ state' = n.state
                /\ timer' = n.timer
                /\ timers' = n.timers
                /\ due' = due \cap n.kept
                /\ armed' = IF n.timer # 0 THEN "moveSliding" ELSE ""
                /\ sop' = SlideOp("moveSliding", x, 0, o)
                /\ UNCHANGED rafs
    /\ swipes' = <<>>
    /\ UNCHANGED <<startX, optsWidthRightSide, optsWidthLeftSide, optsDirty,
                   sides, leftOptions, rightOptions, dragging>>

\* the frame callback of calculateOptsWidth; wR and wL are the offsetWidth
\* at that frame of the panels held
OptsWidthFrame(wR, wL) ==
    /\ rafs > 0
    /\ rafs' = rafs - 1
    /\ IF FrameSkips(optsDirty)
       THEN UNCHANGED <<optsWidthRightSide, optsWidthLeftSide, optsDirty>>
       ELSE /\ optsWidthRightSide' = IF rightOptions THEN wR ELSE 0
            /\ optsWidthLeftSide' = IF leftOptions THEN wL ELSE 0
            /\ optsDirty' = FALSE
    /\ sop' = [SlideOp("optsWidthFrame", 0, 0, 0) EXCEPT !.skipped = ~optsDirty]
    /\ swipes' = <<>>
    /\ UNCHANGED <<openAmount, startX, timer, timers, due, state, sides,
                   leftOptions, rightOptions, armed, dragging>>

\* endSliding(v); when fireSwipeEvent throws, the offset is stored and
\* nothing is returned
EndSliding(v) ==
    /\ dragging
    /\ dragging' = FALSE
    /\ LET rp == RestingPoint(openAmount, v, optsWidthRightSide,
                              optsWidthLeftSide)
           n == SetOpenAmount(rp, TRUE)
           threw == SwipeThrows(n.state, leftOptions, rightOptions)
       IN  /\ openAmount' = n.openAmount
           /\ state' = n.state
           /\ timer' = n.timer
           /\ timers' = n.timers
           /\ due' = due \cap n.kept
           /\ armed' = IF n.timer # 0 THEN "endSliding" ELSE ""
           /\ swipes' = IF threw THEN <<>> ELSE FireSwipe(n.state)
           /\ sop' = [SlideOp("endSliding", 0, v, IF threw THEN 0 ELSE rp)
                          EXCEPT !.threw = threw]
    /\ UNCHANGED <<startX, optsWidthRightSide, optsWidthLeftSide, optsDirty,
                   sides, leftOptions, rightOptions, rafs>>

Close ==
    /\ LET n == SetOpenAmount(0, TRUE)
       IN  /\ openAmount' = n.openAmount
           /\ state' = n.state
           /\ timer' = n.timer
           /\ timers' = n.timers
           /\ due' = due \cap n.kept
    /\ armed' = "close"
    /\ sop' = SlideOp("close", 0, 0, 0)
    /\ swipes' = <<>>
    /\ UNCHANGED <<startX, optsWidthRightSide, optsWidthLeftSide, optsDirty,
                   sides, leftOptions, rightOptions, rafs, dragging>>

\* AUTO_DISABLE_MS have passed since the timeout h was set
Elapse(h) ==
    /\ h \in timers \ due
    /\ due' = due \cup {h}
    /\ sop' = SlideOp("elapse", 0, 0, 0)
    /\ swipes' = <<>>
    /\ UNCHANGED <<openAmount, startX, optsWidthRightSide, optsWidthLeftSide,
                   timer, timers, optsDirty, state, sides, leftOptions,
                   rightOptions, armed, rafs, dragging>>

\* the state the auto-disable timeout callback sets
TimeoutStateEnabled == STATE_ENABLED
TimeoutState == STATE_DISABLED

\* the event loop runs the callback of the auto-disable timeout h
TimerFire(h) ==
    /\ h \in due
    /\ timers' = timers \ {h}
    /\ due' = due \ {h}
    /\ state' = TimeoutState
    /\ timer' = 0
    /\ armed' = ""
    /\ sop' = SlideOp("timer", 0, 0, 0)
    /\ swipes' = <<>>
    /\ UNCHANGED <<openAmount, startX, optsWidthRightSide, optsWidthLeftSide,
                   optsDirty, sides, leftOptions, rightOptions, rafs,
                   dragging>>

SlideNext ==
    \/ \E ps \in PanelLists : SetItemOptions(ps)
    \/ \E x \in Coords : StartSliding(x)
    \/ \E x \in Coords : MoveSliding(x)
    \/ \E wR \in Widths, wL \in Widths : OptsWidthFrame(wR, wL)
    \/ \E v \in Velocities : EndSliding(v)
    \/ Close
    \/ \E h \in timers : Elapse(h)
    \/ \E h \in timers : TimerFire(h)

(***************************************************************************)
(* ScrollView (util/scroll-view.js), vertical axis.                        *)
(* Events are time-stamped in ticks of TICK_MS (50ms), three frames: a     *)
(* sample of the positions buffer carries its age in ticks, capped at      *)
(* WINDOW_TICKS (100ms), beyond which the code never uses a sample's time  *)
(* stamp.  An offset or a velocity is a number of JavaScript, computed as  *)
(* the code computes it, rounding included; svT, svVel and svElTop are     *)
(* these numbers in whole 1/100 px (per frame), cut towards zero, and      *)
(* lengths that come from the layout are whole numbers of 1/100 px.        *)
(***************************************************************************)
MIN_VELOCITY_START_DECELERATION == 400      \* 4 px per frame
MIN_VELOCITY_CONTINUE_DECELERATION == 12    \* 0.12 px per frame
FRICTION_NUM == 97                          \* DECELERATION_FRICTION = 0.97
FRICTION_DEN == 100
END_FRAMES == 6                             \* rafFrames(6, scrollEnd)
WINDOW_TICKS == 2                           \* timeStamp - 100, in ticks
FRAMES_PER_TICK == 3                        \* frames in a tick
TICK_MS == 50                               \* the time between two events
INF == 100000000                            \* Infinity in 1/100
NAN == 200000000                            \* NaN in 1/100

Hundredths(px) == px * FRICTION_DEN

ScrollTops == {0, 60, 120}                  \* element.scrollTop, px
TouchYs == {0, 15}                          \* pointerCoord(ev).y, px
LongMaxes == {Hundredths(180)}              \* a layout with room to coast
ScrollMaxes == {Hundredths(0), Hundredths(20)}   \* layout's scrollable height
AppTops == {60}                             \* setTop(top) and its scroll events
AppMaxes == {Hundredths(20)}                \* the layout beside those calls

(***************************************************************************)
(* The numbers of ScrollView are those of JavaScript, IEEE 754 doubles: a  *)
(* number is [k, neg, e, m], k one of "num", "inf", "nan", and for a       *)
(* number that is not 0 its size is m * 2^e with m of MANT_BITS bits; 0 is *)
(* Zero (the sign of a zero is not kept).  m is a natural number           *)
(* given by its limbs of LIMB_BITS bits, the lowest first, without zero    *)
(* limbs at its end.  Every operation rounds its exact result to the       *)
(* nearest number, a tie to the even one.  No number here is large or      *)
(* small enough to leave the range of normal doubles.                      *)
(***************************************************************************)
MANT_BITS == 53
LIMB_BITS == 2 * 7
LIMB == 2 ^ LIMB_BITS

\* the element of a set of one
The(S) == CHOOSE x \in S : TRUE

\* limb j of the natural number a
NLimb(a, j) == IF j >= 1 /\ j <= Len(a) THEN a[j] ELSE 0

\* the limbs a without the zeros at their end
RECURSIVE NTrim(_)
NTrim(a) ==
    The({IF x = <<>> \/ x[Len(x)] # 0 THEN x
         ELSE NTrim(SubSeq(x, 1, Len(x) - 1)) : x \in {a}})

\* the limbs j.. of the columns s with the carry c into them
RECURSIVE NCarry(_, _, _)
NCarry(s, j, c) ==
    IF j > Len(s) /\ c = 0 THEN <<>>
    ELSE The({<< x % LIMB >> \o NCarry(s, j + 1, x \div LIMB) :
                 x \in {NLimb(s, j) + c}})

\* a + b
NAdd(a, b) ==
    The({NCarry([j \in 1..n |-> NLimb(x, j) + NLimb(y, j)], 1, 0) :
            <<x, y, n>> \in {<<u, v, IF Len(u) < Len(v) THEN Len(v)
                                     ELSE Len(u)>> : u \in {a}, v \in {b}}})

\* the limbs j.. of a - b with the borrow c from them, a >= b
RECURSIVE NBorrow(_, _, _, _)
NBorrow(a, b, j, c) ==
    IF j > Len(a) THEN <<>>
    ELSE The({<< (x + LIMB) % LIMB >>
                  \o NBorrow(a, b, j + 1, IF x < 0 THEN 1 ELSE 0) :
                 x \in {a[j] - NLimb(b, j) - c}})

\* a - b, a >= b
NSub(a, b) ==
    The({NTrim(d) :
            d \in {The({NBorrow(x, y, 1, 0) : <<x, y>> \in {<<a, b>>}})}})

\* a < b
NLess(a, b) ==
    \/ Len(a) < Len(b)
    \/ /\ Len(a) = Len(b)
       /\ \E j \in 1..Len(a) :
              a[j] < b[j] /\ \A k \in (j + 1)..Len(a) : a[k] = b[k]

\* a * p for a whole p, 0 <= p <= LIMB
NTimes(a, p) ==
    The({NTrim(d) :
            d \in {The({NCarry([j \in 1..Len(x) |-> x[j] * y], 1, 0) :
                           <<x, y>> \in {<<a, p>>}})}})

\* a * b for a and b of no more than 4 limbs
NProduct(a, b) ==
    The({NTrim(d) :
            d \in {The({NCarry([k \in 1..(Len(x) + Len(y)) |->
                                   NLimb(x, 1) * NLimb(y, k)
                                   + NLimb(x, 2) * NLimb(y, k - 1)
                                   + NLimb(x, 3) * NLimb(y, k - 2)
                                   + NLimb(x, 4) * NLimb(y, k - 3)], 1, 0) :
                           <<x, y>> \in {<<a, b>>}})}})

\* the limbs j, j - 1, .. of a divided by q, r what is left of the limbs
\* above them: the quotient's limbs and what is left
RECURSIVE NOverFrom(_, _, _, _)
NOverFrom(a, q, j, r) ==
    IF j = 0 THEN [q |-> <<>>, r |-> r]
    ELSE The({[q |-> d.q \o << x \div q >>, r |-> d.r] :
                 <<x, d>> \in {<<u, NOverFrom(a, q, j - 1, u % q)>> :
                                  u \in {r * LIMB + a[j]}}})

\* a divided by a whole q, 0 < q <= LIMB: [q, r], the quotient and what
\* is left
NOver(a, q) ==
    IF q = 1 THEN [q |-> a, r |-> 0]
    ELSE The({[q |-> NTrim(d.q), r |-> d.r] :
                 d \in {The({NOverFrom(x, p, Len(x), 0) :
                                <<x, p>> \in {<<a, q>>}})}})

\* a * 2^s
NShl(a, s) ==
    The({IF x = <<>> THEN <<>>
         ELSE [j \in 1..(n \div LIMB_BITS) |-> 0]
                  \o (IF n % LIMB_BITS = 0 THEN x
                      ELSE NTimes(x, 2 ^ (n % LIMB_BITS))) :
            <<x, n>> \in {<<a, s>>}})

\* a divided by 2^s, cut
NShr(a, s) ==
    The({IF n \div LIMB_BITS >= Len(x) THEN <<>>
         ELSE NOver(SubSeq(x, n \div LIMB_BITS + 1, Len(x)),
                    2 ^ (n % LIMB_BITS)).q :
            <<x, n>> \in {<<a, s>>}})

\* of a, a natural number of more than s bits, s > 0: [q, half, rest], a
\* divided by 2^s, cut; bit s of a; whether a bit below bit s of a is set
NSplit(a, s) ==
    The({IF b > 0
         THEN [q |-> d.q,
               half |-> d.r >= 2 ^ (b - 1),
               rest |-> \/ d.r % (2 ^ (b - 1)) # 0
                        \/ \E j \in 1..w : a[j] # 0]
         ELSE [q |-> d.q,
               half |-> a[w] >= LIMB \div 2,
               rest |-> \/ a[w] % (LIMB \div 2) # 0
                        \/ \E j \in 1..(w - 1) : a[j] # 0] :
            <<w, b, d>> \in {<<u, v, NOver(SubSeq(a, u + 1, Len(a)), 2 ^ v)>> :
                                u \in {s \div LIMB_BITS},
                                v \in {s % LIMB_BITS}}})

\* the number of bits of t, 0 <= t < 2^(LIMB_BITS \div 2)
NBitsLow(t) == Cardinality({k \in 1..(LIMB_BITS \div 2) : t >= 2 ^ (k - 1)})

\* the number of bits of a
NBits(a) ==
    IF a = <<>> THEN 0
    ELSE The({IF t >= 2 ^ (LIMB_BITS \div 2)
              THEN LIMB_BITS * (Len(a) - 1) + LIMB_BITS \div 2
                       + NBitsLow(t \div 2 ^ (LIMB_BITS \div 2))
              ELSE LIMB_BITS * (Len(a) - 1) + NBitsLow(t) :
                 t \in {a[Len(a)]}})

NOdd(a) == NLimb(a, 1) % 2 = 1

\* a natural number below LIMB^3 as a whole number
NWhole(a) == NLimb(a, 1) + LIMB * NLimb(a, 2) + LIMB * LIMB * NLimb(a, 3)

Zero == [k |-> "num", neg |-> FALSE, e |-> 0, m |-> <<>>]
Infinity(neg) == [k |-> "inf", neg |-> neg, e |-> 0, m |-> <<>>]
NaN == [k |-> "nan", neg |-> FALSE, e |-> 0, m |-> <<>>]
IsZero(a) == a = Zero

\* the number nearest to n * 2^e for a natural number n of more than
\* MANT_BITS bits, s the bits beyond them; with more, the exact value lies
\* above n * 2^e by less than 2^e
RoundedDown(neg, n, e, s, more) ==
    The({IF d.half /\ (more \/ d.rest \/ NOdd(d.q))
         THEN The({IF NBits(r) > MANT_BITS
                   THEN [k |-> "num", neg |-> neg, e |-> e + s + 1,
                         m |-> NShr(r, 1)]
                   ELSE [k |-> "num", neg |-> neg, e |-> e + s, m |-> r] :
                      r \in {NAdd(d.q, <<1>>)}})
         ELSE [k |-> "num", neg |-> neg, e |-> e + s, m |-> d.q] :
            d \in {NSplit(n, s)}})

\* the number nearest to n * 2^e, a tie to the even one
Rounded(neg, n, e, more) ==
    The({IF x = <<>> THEN Zero
         ELSE IF s <= 0
         THEN [k |-> "num", neg |-> neg, e |-> e + s, m |-> NShl(x, 0 - s)]
         ELSE RoundedDown(neg, x, e, s, more) :
            <<x, s>> \in {<<u, NBits(u) - MANT_BITS>> : u \in {n}}})

\* the whole number i, of less than 32 bits, as a number
FromInt(i) ==
    Rounded(i < 0,
            NTrim(<< Abs(i) % LIMB, (Abs(i) \div LIMB) % LIMB,
                     Abs(i) \div (LIMB * LIMB) >>), 0, FALSE)

\* -a and Math.abs(a)
Minus(a) ==
    The({IF x.k = "nan" \/ IsZero(x) THEN x ELSE [x EXCEPT !.neg = ~@] :
            x \in {a}})
Size(a) == [a EXCEPT !.neg = FALSE]

\* a * b
Times(a, b) ==
    The({IF u.k = "nan" \/ v.k = "nan" THEN NaN
         ELSE IF u.k = "inf" \/ v.k = "inf"
         THEN IF IsZero(u) \/ IsZero(v) THEN NaN ELSE Infinity(u.neg # v.neg)
         ELSE Rounded(u.neg # v.neg, NProduct(u.m, v.m), u.e + v.e, FALSE) :
            <<u, v>> \in {<<a, b>>}})

\* a + b for numbers that are finite and not 0, their exponents no more
\* than MANT_BITS + 2 apart
SumNear(a, b) ==
    The({IF a.neg = b.neg THEN Rounded(a.neg, NAdd(x, y), lo, FALSE)
         ELSE IF x = y THEN Zero
         ELSE IF NLess(y, x) THEN Rounded(a.neg, NSub(x, y), lo, FALSE)
         ELSE Rounded(b.neg, NSub(y, x), lo, FALSE) :
            <<lo, x, y>> \in {<<l, NShl(a.m, a.e - l), NShl(b.m, b.e - l)>> :
                                 l \in {IF a.e < b.e THEN a.e ELSE b.e}}})

\* a + b; a number more than 2^(MANT_BITS + 2) times smaller than the other
\* does not change it
Sum(a, b) ==
    The({IF u.k = "nan" \/ v.k = "nan" THEN NaN
         ELSE IF u.k = "inf"
         THEN IF v.k = "inf" /\ u.neg # v.neg THEN NaN ELSE u
         ELSE IF v.k = "inf" \/ IsZero(u) THEN v
         ELSE IF IsZero(v) \/ u.e - v.e > MANT_BITS + 2 THEN u
         ELSE IF v.e - u.e > MANT_BITS + 2 THEN v
         ELSE SumNear(u, v) :
            <<u, v>> \in {<<a, b>>}})

\* a - b
Diff(a, b) == Sum(a, Minus(b))

\* a / q for a whole q, 0 <= q <= LIMB
Over(a, q) ==
    The({IF u.k = "nan" THEN NaN
         ELSE IF v = 0 THEN IF IsZero(u) THEN NaN ELSE Infinity(u.neg)
         ELSE IF u.k = "inf" \/ IsZero(u) THEN u
         ELSE The({Rounded(u.neg, d.q, u.e - 2 * LIMB_BITS, d.r # 0) :
                     d \in {NOver(NShl(u.m, 2 * LIMB_BITS), v)}}) :
            <<u, v>> \in {<<a, q>>}})

\* a < b
Less(a, b) ==
    \E <<u, v>> \in {<<a, b>>} :
        LET smaller(x, y) ==      \* Math.abs(x) < Math.abs(y)
                /\ x.k # "inf"
                /\ ~IsZero(y)
                /\ \/ y.k = "inf"
                   \/ IsZero(x)
                   \/ x.e < y.e
                   \/ x.e = y.e /\ NLess(x.m, y.m)
        IN  /\ u.k # "nan" /\ v.k # "nan"
            /\ IF u.neg # v.neg THEN u.neg
               ELSE IF u.neg THEN smaller(v, u) ELSE smaller(u, v)

\* the number a in whole 1/100, cut towards zero
Cut(a) ==
    The({IF u.k = "nan" THEN NAN
         ELSE IF u.k = "inf" THEN IF u.neg THEN 0 - INF ELSE INF
         ELSE The({IF u.neg THEN 0 - n ELSE n :
                     n \in {NWhole(IF u.e >= 0
                                   THEN NShl(NTimes(u.m, FRICTION_DEN), u.e)
                                   ELSE NShr(NTimes(u.m, FRICTION_DEN),
                                             0 - u.e))}}) :
            u \in {a}})

\* the number n / 100
Dbl(n) ==
    IF n % FRICTION_DEN = 0 THEN FromInt(n \div FRICTION_DEN)
    ELSE Over(FromInt(n), FRICTION_DEN)

\* the numbers the code names
ONE == FromInt(1)
Still == Zero
DECELERATION_FRICTION == Over(FromInt(FRICTION_NUM), FRICTION_DEN)
FRAME_MS == Over(FromInt(1000), 60)

\* a whole number of pixels
Pixels(y) == FromInt(y)

\* (movedTop / timeOffset) * FRAME_MS for the samples a and b, b the later
\* one by dt ticks: movedTop = a - b
VelocityOf(a, b, dt) == Times(Over(Diff(a, b), TICK_MS * dt), FRAME_MS)

\* ev.velocityY *= DECELERATION_FRICTION
FrictionNone(v) == v
Friction(v) == Times(v, DECELERATION_FRICTION)

\* Math.abs(v) > bound
START_DECELERATION == Dbl(MIN_VELOCITY_START_DECELERATION)
CONTINUE_DECELERATION == Dbl(MIN_VELOCITY_CONTINUE_DECELERATION)
Exceeds(v, bound) == Less(bound, Size(v))

\* Math.min(Math.max(t, 0), max)
ClampTopUnbounded(t, max) ==
    The({IF Less(u, Zero) THEN Zero ELSE u : u \in {t}})
ClampTop(t, max) ==
    The({IF Less(hi, lo) THEN hi ELSE lo :
            <<lo, hi>> \in {<<IF Less(u, Zero) THEN Zero ELSE u, Dbl(max)>> :
                                u \in {t}}})

\* setMax(): m is what the layout gives when max is not cached
SetMax(max, m) == IF max = 0 THEN m ELSE max

\* the index of the oldest sample of the trailing run of samples that are
\* younger than 100ms (the loops over positions), for a non-empty buffer
StartPos(pos) ==
    LET inWin(i) == \A j \in i..Len(pos) : pos[j].age < WINDOW_TICKS
    IN  IF inWin(Len(pos))
        THEN CHOOSE i \in 1..Len(pos) :
                 inWin(i) /\ (i = 1 \/ ~inWin(i - 1))
        ELSE Len(pos)

\* a tick passes: every sample is one tick older
Older(pos) ==
    [i \in 1..Len(pos) |->
        [pos[i] EXCEPT !.age = IF @ < WINDOW_TICKS THEN @ + 1 ELSE @]]

\* this._dom.cancel(rafCancel): is the read task still held afterwards
CancelReadSkipped(pending) == pending
CancelRead(pending) == FALSE

\* the debounce of scrollCallback: this._endTmr && this._endTmr(), then
\* rafFrames(6, scrollEnd); frames left of the timer that is pending after
RestartEndTmrKept(left) == IF left # 0 THEN left ELSE END_FRAMES
RestartEndTmr(left) == END_FRAMES

\* whether a scroll-start is unmatched after the notifications emit, given
\* whether one was before them
OpenAfter(open, emit) ==
    LET marks == {i \in 1..Len(emit) : emit[i] \in {"scrollStart", "scrollEnd"}}
    IN  IF marks = {} THEN open ELSE emit[Max(marks)] = "scrollStart"

\* element.scrollTop = top: a number that is not finite is stored as 0
ElTopOf(top) == IF top.k # "num" THEN Zero ELSE top

\* the scroll view of a handler: the offset t and the element's scrollTop
\* top are numbers, v is a velocity, emit are the notifications of the step
Fields ==
    [js |-> svJs, el |-> svEl, scrolling |-> svScrolling,
     t |-> svFine.t, v |-> svFine.v, top |-> svFine.el,
     pos |-> svPos, endTmr |-> svEndTmr, quiet |-> svQuiet, max |-> svMax,
     read |-> svRead, old |-> svOld, write |-> svWrite, stale |-> svStale,
     echo |-> svEcho, emit |-> <<>>]

\* the scroll view after a handler that has left it as n; a number that the
\* handler has not changed keeps its cut
Put(n) ==
    \E r \in {n} :
        /\ svJs' = r.js
        /\ svScrolling' = r.scrolling
        /\ svT' = IF r.t = svFine.t THEN svT ELSE Cut(r.t)
        /\ svVel' = IF r.v = svFine.v THEN svVel ELSE Cut(r.v)
        /\ svFine' = [t |-> r.t, v |-> r.v, el |-> r.top]
        /\ svElTop' = IF r.top = svFine.el THEN svElTop ELSE Cut(r.top)
        /\ svPos' = r.pos
        /\ svEndTmr' = r.endTmr
        /\ svQuiet' = r.quiet
        /\ svMax' = r.max
        /\ svRead' = r.read
        /\ svOld' = r.old
        /\ svWrite' = r.write
        /\ svStale' = r.stale
        /\ svEcho' = r.echo
        /\ semit' = r.emit

\* the fields of the scroll view that native scroll events change
ScrollFresh ==
    /\ svOpen = FALSE
    /\ svScrolling = FALSE
    /\ svT = 0
    /\ svElTop = 0
    /\ svFine = [t |-> Zero, v |-> Zero, el |-> Zero]
    /\ svPos = <<>>
    /\ svEndTmr = 0
    /\ svQuiet = 0

\* what is left of the scroll view after its construction
ScrollRest ==
    /\ svVel = 0
    /\ svMax = 0
    /\ svRead = FALSE
    /\ svOld = <<>>
    /\ svWrite = FALSE
    /\ svStale = FALSE
    /\ svTouches = 0
    /\ svCalls = 0
    /\ svop = [name |-> "new", y |-> 0, had |-> FALSE]
    /\ semit = <<>>
    /\ svEl = TRUE
    /\ svEcho = FALSE
    /\ anims = <<>>

ScrollInit ==
    /\ svJs \in BOOLEAN
    /\ ScrollFresh
    /\ ScrollRest

\* setTop(top) on the fields sv of a view that has its element
SetTop(sv, top) ==
    The({IF sv.js THEN [sv EXCEPT !.t = t]
         ELSE [sv EXCEPT !.t = t,
                         !.top = ElTopOf(t),
                         !.echo = sv.echo \/ ElTopOf(t) # sv.top] :
            t \in {top}})

\* scrollCallback(scrollEvent) of native mode on the fields sv: getTop()
\* reads the element's scrollTop
ScrollCallback(fields) ==
    The({LET starting == ~sv.scrolling
             pos == Append(IF starting THEN <<>> ELSE sv.pos,
                           [p |-> sv.top, age |-> 0])
             sp == StartPos(pos)
         IN  [sv EXCEPT
                 !.t = sv.top,
                 !.scrolling = TRUE,
                 !.pos = pos,
                 !.v = IF Len(pos) > 1 /\ sp # Len(pos)
                       THEN VelocityOf(pos[sp].p, sv.top, pos[sp].age)
                       ELSE IF starting THEN Still ELSE sv.v,
                 !.emit = sv.emit \o (IF starting
                                      THEN <<"scrollStart", "scroll">>
                                      ELSE <<"scroll">>),
                 !.endTmr = RestartEndTmr(sv.endTmr),
                 !.quiet = 0,
                 !.echo = FALSE] :
            sv \in {fields}})

\* a scroll event of native mode after the user has scrolled the element to
\* top (px)
ScrollEventAt(top) ==
    /\ ~svJs /\ svEl
    /\ Put(ScrollCallback([Fields EXCEPT !.top = Pixels(top)]))
    /\ svop' = [name |-> "scroll", y |-> top, had |-> svEndTmr # 0]
    /\ UNCHANGED <<svTouches, svCalls>>

\* a scroll event while the buffer of the model has room
ScrollEvent(top) ==
    /\ Len(svPos) < MaxPos \/ ~svScrolling
    /\ ScrollEventAt(top)

\* jsScrollTouchStart(touchEvent)
TouchStart(y) ==
    /\ svJs /\ svEl
    /\ svTouches < MaxTouch
    /\ svTouches' = svTouches + 1
    /\ Put([Fields EXCEPT !.pos = << [p |-> Pixels(y), age |-> 0] >>,
                          !.max = 0,
                          !.read = CancelRead(svRead),
                          !.stale = CancelRead(svRead)])
    /\ svop' = [name |-> "touchStart", y |-> y, had |-> svRead]
    /\ UNCHANGED svCalls

\* jsScrollTouchMove(touchEvent); m is the layout's scrollable height
TouchMoveAt(y, m) ==
    /\ svJs /\ svEl
    /\ IF svPos = <<>>
       THEN Put(Fields)
       ELSE LET max == SetMax(svMax, m)
                by == Diff(Pixels(y), svPos[Len(svPos)].p)
            IN  Put([Fields EXCEPT
                        !.max = max,
                        !.t = ClampTop(Diff(@, by), max),
                        !.pos = Append(@, [p |-> Pixels(y),
                                           age |-> 0]),
                        !.scrolling = TRUE,
                        !.v = IF svScrolling THEN @ ELSE Still,
                        !.write = TRUE,
                        !.emit = IF svScrolling THEN <<>>
                                 ELSE <<"scrollStart">>])
    /\ svop' = [name |-> "touchMove", y |-> y, had |-> svRead]
    /\ UNCHANGED <<svTouches, svCalls>>

\* a touch-move while the buffer of the model has room
TouchMove(y, m) ==
    /\ Len(svPos) < MaxPos
    /\ TouchMoveAt(y, m)

\* jsScrollTouchEnd(touchEvent); m is the layout's scrollable height
TouchEnd(y, m) ==
    /\ svJs /\ svEl
    /\ \E pos \in {Append(svPos, [p |-> Pixels(y), age |-> 0])} :
       \E sp \in {StartPos(pos)} :
       \E vel \in {VelocityOf(pos[sp].p, pos[Len(pos)].p, pos[sp].age)} :
       \E fast \in {Exceeds(vel, START_DECELERATION)} :
           IF svPos = <<>> /\ svScrolling
           THEN Put([Fields EXCEPT !.scrolling = FALSE,
                                   !.v = Still,
                                   !.emit = <<"scrollEnd">>,
                                   !.read = CancelRead(svRead),
                                   !.stale = FALSE])
           ELSE IF sp # Len(pos)
           THEN Put([Fields EXCEPT !.v = vel,
                                   !.max = IF fast THEN SetMax(svMax, m)
                                           ELSE @,
                                   !.read = (fast \/ CancelRead(svRead)),
                                   !.pos = <<>>,
                                   !.stale = FALSE])
           ELSE Put([Fields EXCEPT !.scrolling = FALSE,
                                   !.v = Still,
                                   !.emit = <<"scrollEnd">>,
                                   !.read = CancelRead(svRead),
                                   !.pos = <<>>,
                                   !.stale = FALSE])
    /\ svop' = [name |-> "touchEnd", y |-> y, had |-> svRead]
    /\ UNCHANGED <<svTouches, svCalls>>

\* stop()
Stop ==
    /\ Put([Fields EXCEPT !.scrolling = FALSE])
    /\ svop' = [name |-> "stop", y |-> 0, had |-> FALSE]
    /\ UNCHANGED <<svTouches, svCalls>>

\* setTop(top), top in px
SetTopTo(top) ==
    /\ svCalls < MaxCall
    /\ svCalls' = svCalls + 1
    /\ Put(IF svEl THEN SetTop(Fields, Pixels(top))
           ELSE [Fields EXCEPT !.t = Pixels(top)])
    /\ svop' = [name |-> "setTop", y |-> top, had |-> FALSE]
    /\ UNCHANGED svTouches

\* getTop()
GetTop ==
    /\ Put(IF ~svJs /\ svEl THEN [Fields EXCEPT !.t = Fields.top] ELSE Fields)
    /\ svop' = [name |-> "getTop", y |-> 0, had |-> FALSE]
    /\ UNCHANGED <<svTouches, svCalls>>

\* The listeners and the closure of enableJsScroll or enableNativeScrolling
\* replace those of the call before: a new positions buffer, no cached max,
\* no rafCancel.  A read task the closure before has queued stays in the
\* DomController with the max of its closure.
NewClosure(sv) ==
    [sv EXCEPT !.pos = <<>>,
               !.max = 0,
               !.read = FALSE,
               !.stale = FALSE,
               !.old = IF sv.read THEN Append(@, sv.max) ELSE @]

\* enableJsScroll(contentTop, contentBottom)
EnableJsScroll ==
    /\ svCalls < MaxCall
    /\ svCalls' = svCalls + 1
    /\ Put(IF svEl THEN [NewClosure(Fields) EXCEPT !.js = TRUE]
           ELSE [Fields EXCEPT !.js = TRUE])
    /\ svop' = [name |-> "enableJsScroll", y |-> 0, had |-> svRead]
    /\ UNCHANGED svTouches

\* enableNativeScrolling()
EnableNativeScrolling ==
    /\ svCalls < MaxCall
    /\ svCalls' = svCalls + 1
    /\ Put(IF svEl THEN [NewClosure(Fields) EXCEPT !.js = FALSE]
           ELSE [Fields EXCEPT !.js = FALSE])
    /\ svop' = [name |-> "enableNativeScrolling", y |-> 0, had |-> svRead]
    /\ UNCHANGED svTouches

\* the scroll-end debounce in a frame: scrollEnd of rafFrames(6, ...)
EndTmrFrame(fields) ==
    The({LET q == IF sv.js \/ sv.quiet = END_FRAMES THEN sv.quiet
                  ELSE sv.quiet + 1
         IN  IF sv.endTmr = 1
             THEN [sv EXCEPT !.endTmr = 0, !.scrolling = FALSE, !.v = Still,
                             !.emit = Append(sv.emit, "scrollEnd"),
                             !.quiet = q]
             ELSE [sv EXCEPT !.endTmr = IF @ = 0 THEN 0 ELSE @ - 1,
                             !.quiet = q] :
            sv \in {fields}})

\* jsScrollDecelerate(timeStamp) of the read tasks j.. on the fields s, the
\* tasks given by the max of their closures, m the layout's scrollable
\* height: the fields after them, and of each whether it has moved the
\* offset and the max of its closure
RECURSIVE Reads(_, _, _, _)
Reads(sv, tasks, j, m) ==
    IF j > Len(tasks) THEN [s |-> sv, w |-> <<>>]
    ELSE The({LET ran == s.v # Still /\ s.v.k # "nan"
                  max == SetMax(tasks[j], m)
                  task == [ran |-> ran,
                           max |-> IF ran THEN max ELSE tasks[j]]
                  Coasted(v) == [s EXCEPT !.v = v,
                                        !.t = ClampTop(Sum(s.t, v), max),
                                        !.emit = Append(@, "scroll")]
                  s1 == IF ran
                        THEN The({Coasted(v) : v \in {Friction(s.v)}})
                        ELSE s
              IN  The({[s |-> r.s, w |-> << task >> \o r.w] :
                           r \in {Reads(s1, tasks, j + 1, m)}}) :
                 s \in {sv}})

\* the write tasks the read tasks j.. have queued, w what Reads tells of the
\* read tasks: the fields after them, and of each whether it has queued its
\* read task again
RECURSIVE Writes(_, _, _)
Writes(sv, w, j) ==
    IF j > Len(w) THEN [s |-> sv, on |-> <<>>]
    ELSE LET GoOn(s1) == /\ Less(Zero, s1.t)
                         /\ Less(s1.t, Dbl(w[j].max))
                         /\ Exceeds(s1.v, CONTINUE_DECELERATION)
             Rested(s1) == [s1 EXCEPT !.scrolling = FALSE,
                                     !.v = Still,
                                     !.emit = Append(@, "scrollEnd")]
             After(s, s1) == IF ~w[j].ran THEN [s |-> s, on |-> FALSE]
                             ELSE IF GoOn(s1) THEN [s |-> s1, on |-> TRUE]
                             ELSE [s |-> Rested(s1), on |-> FALSE]
         IN  The({[s |-> r.s, on |-> << a.on >> \o r.on] :
                      <<a, r>> \in
                          {<<b, Writes(b.s, w, j + 1)>> :
                              b \in {After(p[1], p[2]) :
                                        p \in {<<u, SetTop(u, u.t)>> :
                                                  u \in {sv}}}}})

\* The DomController's flush of a frame on the fields sv: the read tasks in
\* the order they were queued, then the write tasks, first that of the
\* touch-moves, then those the read tasks have queued; the read task a write
\* task queues waits for the next frame.  m is the layout's scrollable
\* height.
Flush(sv, m) ==
    LET tasks == sv.old \o (IF sv.read THEN << sv.max >> ELSE <<>>)
        n == Len(tasks)
        Written(s) == IF sv.write /\ sv.el
                      THEN [SetTop(s, s.t) EXCEPT !.write = FALSE]
                      ELSE [s EXCEPT !.write = FALSE]
        Left(rd, wr) ==
            LET kept == {j \in 1..Len(sv.old) : wr.on[j]}
            IN  [wr.s EXCEPT
                    !.old = [k \in 1..Cardinality(kept) |->
                                rd.w[CHOOSE j \in kept :
                                         Cardinality({i \in kept : i <= j}) = k
                                    ].max],
                    !.read = sv.read /\ wr.on[n],
                    !.max = IF sv.read /\ rd.w[n].ran THEN rd.w[n].max ELSE @,
                    !.stale = sv.read /\ rd.w[n].ran /\ sv.stale]
    IN  The({Left(p[1], p[2]) :
                 p \in {<<rd, Writes(Written(rd.s), rd.w, 1)>> :
                           rd \in {Reads(sv, tasks, 1, m)}}})

\* A display frame.  The scroll event the element owes for a changed
\* scrollTop reaches the listener of native mode, if there is one; the
\* scroll-end debounce counts a frame and runs scrollEnd when none is left;
\* the DomController flushes.  m is the layout's scrollable height.  The
\* frame waits while the buffer of the model has no room for the sample of
\* the scroll event.
Frame(m) ==
    /\ svEndTmr # 0 \/ svRead \/ svOld # <<>> \/ svWrite \/ svEcho
    /\ svEcho /\ ~svJs /\ svEl /\ svScrolling => Len(svPos) < MaxPos
    /\ \E s1 \in {IF svEcho /\ ~svJs /\ svEl THEN ScrollCallback(Fields)
                    ELSE [Fields EXCEPT !.echo = FALSE]} :
       \E s2 \in {EndTmrFrame(s1)} :
       \E s3 \in {Flush(s2, m)} :
           /\ Put(s3)
           /\ svop' = IF Len(s3.emit) > Len(s2.emit)
                      THEN [name |-> "decelerate", y |-> 0, had |-> svStale]
                      ELSE IF svEndTmr = 1
                      THEN [name |-> "scrollEnd", y |-> 0, had |-> TRUE]
                      ELSE [name |-> "frame", y |-> 0, had |-> FALSE]
    /\ UNCHANGED <<svTouches, svCalls>>

\* 50ms pass without an event
Tick ==
    /\ \E i \in 1..Len(svPos) : svPos[i].age < WINDOW_TICKS
    /\ Put([Fields EXCEPT !.pos = Older(svPos)])
    /\ svop' = [name |-> "tick", y |-> 0, had |-> FALSE]
    /\ UNCHANGED <<svTouches, svCalls>>

\* the numbers the positions array holds: offset, left offset and time
\* stamp of a scroll event, coordinate and time stamp of a touch
Entries == Len(svPos) * (IF svJs THEN 2 ELSE 3)

\* One long interaction: scroll events that follow each other, or the moves
\* of one drag, at offsets that go round ScrollTops and TouchYs.
BurstNext ==
    \/ \E top \in ScrollTops :
           /\ Entries < MaxBurst
           /\ top = 60 * (Len(svPos) % 3)
           /\ ScrollEventAt(top)
    \/ \E y \in TouchYs : TouchStart(y)
    \/ \E y \in TouchYs, m \in ScrollMaxes :
           /\ Entries < MaxBurst
           /\ y = 15 * (Len(svPos) % 2)
           /\ m = Hundredths(20)
           /\ TouchMoveAt(y, m)
    \/ \E m \in ScrollMaxes : Frame(m)
    \/ Tick

\* a scroll view that keeps the mode it was constructed in and whose offset
\* only its listeners write
SteadyNext ==
    \/ \E top \in ScrollTops : ScrollEvent(top)
    \/ \E y \in TouchYs : TouchStart(y)
    \/ \E y \in TouchYs, m \in ScrollMaxes : TouchMove(y, m)
    \/ \E y \in TouchYs, m \in ScrollMaxes : TouchEnd(y, m)
    \/ Stop
    \/ \E m \in ScrollMaxes : Frame(m)
    \/ Tick

\* a scroll view whose offset and mode the application sets as well, during
\* its first drag, with one offset for the scroll events and the calls and
\* one scrollable height
ScrollNext ==
    \/ \E top \in AppTops : ScrollEvent(top)
    \/ \E y \in TouchYs : svTouches = 0 /\ TouchStart(y)
    \/ \E y \in TouchYs, m \in AppMaxes : TouchMove(y, m)
    \/ \E y \in TouchYs, m \in AppMaxes : TouchEnd(y, m)
    \/ Stop
    \/ \E m \in AppMaxes : Frame(m)
    \/ Tick
    \/ \E top \in AppTops : SetTopTo(top)
    \/ GetTop
    \/ EnableJsScroll
    \/ EnableNativeScrolling
(***************************************************************************)
(* ScrollView.scrollTo in native mode.  A frame delivers the scroll event  *)
(* the element owes for a changed scrollTop, then runs the frame callbacks *)
(* in the order they were requested.  Durations are in ms, multiples of    *)
(* three frames; a frame callback's time stamp is its frame number.        *)
(***************************************************************************)
BUDGET_MS == 16                             \* maxAttempts = duration / 16 ...
BUDGET_EXTRA == 100                         \* ... + 100
START_FRAMES == 2                           \* rafFrames(2, ...)

Durations == {0, 300}                       \* scrollTo(x, y, duration)
LongDurations == {2000}                     \* a scrollTo of two seconds
Targets == {0, 60}                          \* scrollTo(x, y, duration), px
FrameDts == {0, 1}                          \* frames between two callbacks
FAST_RATE == 4                              \* callbacks in a frame of FRAME_MS

DurFrames(ms) == (FRAMES_PER_TICK * ms) \div TICK_MS

\* attempts > maxAttempts
OverBudgetNever(att, ms) == FALSE
OverBudget(att, ms) == BUDGET_MS * att > ms + BUDGET_MS * BUDGET_EXTRA

\* easedT = (--time) * time * time + 1 with time = Math.min(1, (timeStamp
\* - startTime) / duration), e frames after the start: the frames' time
\* stamps are startTime + e * FRAME_MS
EasedT(e, ms) ==
    The({Sum(Times(Times(t, t), t), ONE) :
            t \in {The({Diff(IF Less(ONE, time) THEN ONE ELSE time, ONE) :
                           time \in {Over(Times(FromInt(e), FRAME_MS), ms)}})}})

\* easedT at every elapsed time of a call of the model
EasedTs ==
    [ms \in Durations \cup LongDurations,
     e \in 0..DurFrames(Max(Durations \cup LongDurations)) |-> EasedT(e, ms)]

\* (easedT * (y - fromY)) + fromY
EasedTop(from, to, eased) == Sum(Times(eased, Diff(Dbl(to), from)), from)

\* the step's guard on the element: !self._el
ElGone(el) == ~el

\* what the abort branch of step does with self._el.style when there is no
\* element: the read of a property of null throws
AbortOutcome(el) == IF el THEN "done" ELSE "threw"

\* step(timeStamp) of the scrollTo call a on the fields sv: <<fields, call>>
Step(fields, call) ==
    The({LET att == a.att + 1
         IN  IF ElGone(sv.el) \/ ~sv.scrolling \/ OverBudget(att, a.dur)
             THEN << [sv EXCEPT !.scrolling = FALSE],
                     [a EXCEPT !.att = att,
                               !.st = AbortOutcome(sv.el),
                               !.done = IF AbortOutcome(sv.el) = "done"
                                        THEN @ + 1 ELSE @] >>
             ELSE The({LET wrote == IF moves THEN a.wrote + 1 ELSE a.wrote
                           late == a.late \/ (a.over /\ moves)
                       IN  The({IF Less(eased, ONE)
                                THEN << w, [a EXCEPT !.att = att,
                                                     !.wrote = wrote,
                                                     !.late = late] >>
                                ELSE << [w EXCEPT !.scrolling = FALSE],
                                        [a EXCEPT !.att = att,
                                                  !.wrote = wrote,
                                                  !.late = late,
                                                  !.st = "done",
                                                  !.done = @ + 1] >> :
                                   w \in {IF moves
                                          THEN SetTop(sv, EasedTop(a.from,
                                                                   a.to,
                                                                   eased))
                                          ELSE sv}}) :
                          <<eased, moves>> \in {<<EasedTs[a.dur, a.el],
                                                  a.from # Dbl(a.to)>>}}) :
            <<sv, a>> \in {<<fields, call>>}})

\* the frame callback of the scrollTo call a, dt frames after the last one
AnimFrameOf(sv, a, dt) ==
    IF a.st = "wait"
    THEN IF a.delay > 1
         THEN << sv, [a EXCEPT !.delay = @ - 1] >>
         ELSE Step(sv, [a EXCEPT !.delay = 0, !.st = "run"])
    ELSE IF a.st = "run"
    THEN LET d == DurFrames(a.dur)
         IN  Step(sv, [a EXCEPT !.el = IF @ + dt > d THEN d ELSE @ + dt])
    ELSE << sv, a >>

\* the frame callbacks of the calls as[i..], in order: <<fields, calls>>
RECURSIVE AnimFrames(_, _, _, _)
AnimFrames(sv, as, i, dt) ==
    IF i > Len(as)
    THEN << sv, as >>
    ELSE The({AnimFrames(r[1], [as EXCEPT ![i] = r[2]], i + 1, dt) :
                 r \in {AnimFrameOf(sv, as[i], dt)}})

InFlight(a) == a.st \in {"wait", "run"}

\* scrollTo(0, y, duration) of native mode, y in px: a first call, or a
\* second one while the first is in flight
ScrollTo(y, duration) ==
    /\ ~svJs
    /\ \A i \in 1..Len(anims) : InFlight(anims[i]) /\ ~anims[i].over
    /\ LET over == [i \in 1..Len(anims) |->
                       [anims[i] EXCEPT !.over = @ \/ InFlight(anims[i])]]
           a == [st |-> IF svEl THEN "wait" ELSE "done",
                 delay |-> START_FRAMES, from |-> Fields.top,
                 to |-> Hundredths(y), dur |-> duration, el |-> 0, att |-> 0,
                 wrote |-> 0, done |-> IF svEl THEN 0 ELSE 1,
                 cut |-> ~svEl, over |-> FALSE, late |-> FALSE]
       IN  anims' = Append(over, a)
    /\ Put([Fields EXCEPT !.scrolling = (svEl \/ svScrolling)])
    /\ svop' = [name |-> "scrollTo", y |-> y, had |-> svEndTmr # 0]
    /\ UNCHANGED <<svTouches, svCalls, svEl>>

\* stop() while scrollTo calls may be in flight
AnimStop ==
    /\ svEl
    /\ Stop
    /\ anims' = [i \in 1..Len(anims) |->
                    [anims[i] EXCEPT !.cut = @ \/ InFlight(anims[i])]]
    /\ UNCHANGED svEl

\* ScrollView.destroy()
ScrollDestroy ==
    /\ svEl
    /\ svEl' = FALSE
    /\ Put([Fields EXCEPT !.scrolling = FALSE, !.endTmr = 0, !.echo = FALSE])
    /\ anims' = [i \in 1..Len(anims) |->
                    [anims[i] EXCEPT !.cut = @ \/ InFlight(anims[i])]]
    /\ svop' = [name |-> "destroy", y |-> 0, had |-> svEndTmr # 0]
    /\ UNCHANGED <<svTouches, svCalls>>

\* a display frame of native mode with scrollTo calls
AnimFrame(dt) ==
    /\ ~svJs
    /\ svEndTmr # 0 \/ svEcho \/ \E i \in 1..Len(anims) : InFlight(anims[i])
    /\ \E s1 \in {IF svEcho /\ svEl THEN ScrollCallback(Fields)
                    ELSE [Fields EXCEPT !.echo = FALSE]} :
       \E s2 \in {EndTmrFrame(s1)} :
       \E r \in {AnimFrames(s2, anims, 1, dt)} :
           /\ Put(r[1])
           /\ anims' = r[2]
    /\ svop' = [name |-> "animFrame", y |-> dt, had |-> svEndTmr # 0]
    /\ UNCHANGED <<svTouches, svCalls, svEl>>

\* The scroll view of native mode q frames after the one scroll event of a
\* user who has scrolled the element to top (px); with q = END_FRAMES the
\* scroll-end has been emitted.
AfterScroll(top, q) ==
    /\ ScrollRest
    /\ svJs = FALSE
    /\ svT = Hundredths(top)
    /\ svElTop = Hundredths(top)
    /\ svFine = [t |-> Pixels(top), v |-> Zero, el |-> Pixels(top)]
    /\ svPos = << [p |-> Pixels(top), age |-> 0] >>
    /\ svScrolling = (q < END_FRAMES)
    /\ svOpen = (q < END_FRAMES)
    /\ svEndTmr = END_FRAMES - q
    /\ svQuiet = q

\* scrollTo, stop and destroy on a display of 60 frames a second; the scroll
\* events the element owes carry one time stamp, the velocity they compute
\* does not enter scrollTo
AnimNext ==
    \/ \E y \in Targets, d \in Durations : ScrollTo(y, d)
    \/ AnimStop
    \/ ScrollDestroy
    \/ AnimFrame(1)

(***************************************************************************)
(* RadioGroup (radio-group.js) and RadioButton (radio-button.js).  A value *)
(* is a record: null, a value n given by the template, or the generated id *)
(* of button n.                                                            *)
(***************************************************************************)
Radios == 1..MaxRadio
NullValue == [id |-> FALSE, n |-> 0]
Given(n) == [id |-> FALSE, n |-> n]
IdOf(b) == [id |-> TRUE, n |-> b]
ValueInputs == {NullValue, Given(1)}
CheckedInputs == {"", "true", "false"}

\* util.isBlank / util.isPresent
IsBlank(v) == v = NullValue
IsPresent(v) == v # NullValue

\* util.isTrueProperty of a string
IsTrueProperty(c) == c \in {"", "true", "on"}

\* util.isCheckedProperty(a, b) of values other than booleans and numbers
IsCheckedProperty(a, b) == IF a = NullValue THEN b = NullValue ELSE a = b

\* RadioButton: get value()
ValueOf(b) == IF IsBlank(rbValue[b]) THEN IdOf(b) ELSE rbValue[b]

Live == {rgBtns[i] : i \in 1..Len(rgBtns)}

\* RadioGroup._update() with group value val, on the flags checked: the
\* flags after it
Update(val, checked) ==
    LET hit(i) == IsCheckedProperty(val, ValueOf(rgBtns[i]))
        hasChecked(i) == \E j \in 1..(i - 1) : hit(j)
    IN  [b \in Radios |->
            IF \E i \in 1..Len(rgBtns) : rgBtns[i] = b
            THEN LET i == CHOOSE k \in 1..Len(rgBtns) : rgBtns[k] = b
                 IN  hit(i) /\ ~hasChecked(i)
            ELSE checked[b]]

RadioInit ==
    /\ rgValue = NullValue
    /\ rgInit = FALSE
    /\ rgBtns = <<>>
    /\ rbMade = {}
    /\ rbInit = {}
    /\ rbValue = [b \in Radios |-> NullValue]
    /\ rbChecked = [b \in Radios |-> FALSE]
    /\ rdop = [name |-> "new", b |-> 0]

\* new RadioButton(..., _group): group.add(this)
RadioAdd(b) ==
    /\ b \notin rbMade
    /\ rbMade' = rbMade \cup {b}
    /\ rgBtns' = Append(rgBtns, b)
    /\ rdop' = [name |-> "add", b |-> b]
    /\ UNCHANGED <<rgValue, rgInit, rbInit, rbValue, rbChecked>>

\* RadioButton: set value(val)
SetValue(b, v) ==
    /\ b \in rbMade
    /\ rbValue' = [rbValue EXCEPT ![b] = v]
    /\ rdop' = [name |-> "value", b |-> b]
    /\ UNCHANGED <<rgValue, rgInit, rgBtns, rbMade, rbInit, rbChecked>>

\* RadioButton: set checked(isChecked)
SetChecked(b, c) ==
    /\ b \in rbMade
    /\ rbChecked' = [rbChecked EXCEPT ![b] = IsTrueProperty(c)]
    /\ rdop' = [name |-> "checked", b |-> b]
    /\ UNCHANGED <<rgValue, rgInit, rgBtns, rbMade, rbInit, rbValue>>

\* RadioButton.ngOnInit(), once in the life of a button
NgOnInit(b) ==
    /\ b \in rbMade \ rbInit
    /\ rbInit' = rbInit \cup {b}
    /\ rbChecked' = IF IsPresent(rgValue)
                    THEN [rbChecked EXCEPT ![b] =
                             IsCheckedProperty(rgValue, ValueOf(b))]
                    ELSE rbChecked
    /\ rdop' = [name |-> "ngOnInit", b |-> b]
    /\ UNCHANGED <<rgValue, rgInit, rgBtns, rbMade, rbValue>>

\* RadioButton._click(ev): ionSelect reaches RadioGroup.onChange
RadioClick(b) ==
    /\ b \in Live
    /\ rgValue' = ValueOf(b)
    /\ rbChecked' = Update(ValueOf(b), [rbChecked EXCEPT ![b] = TRUE])
    /\ rdop' = [name |-> "click", b |-> b]
    /\ UNCHANGED <<rgInit, rgBtns, rbMade, rbInit, rbValue>>

\* RadioGroup.writeValue(val)
WriteValue(v) ==
    /\ rgValue' = v
    /\ rbChecked' = IF rgInit THEN Update(v, rbChecked) ELSE rbChecked
    /\ rgInit' = TRUE
    /\ rdop' = [name |-> "writeValue", b |-> 0]
    /\ UNCHANGED <<rgBtns, rbMade, rbInit, rbValue>>

\* RadioButton.ngOnDestroy(): RadioGroup.remove(button)
RadioRemove(b) ==
    /\ b \in Live
    /\ rgValue' = IF ValueOf(b) = rgValue THEN NullValue ELSE rgValue
    /\ rgBtns' = SelectSeq(rgBtns, LAMBDA x : x # b)
    /\ rdop' = [name |-> "remove", b |-> b]
    /\ UNCHANGED <<rgInit, rbMade, rbInit, rbValue, rbChecked>>

RadioNext ==
    \/ \E b \in Radios : RadioAdd(b)
    \/ \E b \in Radios, v \in ValueInputs : SetValue(b, v)
    \/ \E b \in Radios, c \in CheckedInputs : SetChecked(b, c)
    \/ \E b \in Radios : NgOnInit(b)
    \/ \E b \in Radios : RadioClick(b)
    \/ \E v \in ValueInputs : WriteValue(v)
    \/ \E b \in Radios : RadioRemove(b)

(***************************************************************************)
(* Platform: the actions of the hardware back button (platform.js)         *)
(***************************************************************************)
BackPriorities == {0, 1, 2}
NoAction == [id |-> 0, priority |-> 0]

\* the test of runBackButtonAction: action replaces the winner so far
BeatsStrictly(action, winner) ==
    winner = NoAction \/ action.priority > winner.priority

Beats(action, winner) ==
    winner = NoAction \/ action.priority >= winner.priority

\* the winner after actions[i], actions[i + 1], ...
RECURSIVE Winner(_, _, _)
Winner(actions, i, winner) ==
    IF i > Len(actions) THEN winner
    ELSE Winner(actions, i + 1,
                IF Beats(actions[i], winner) THEN actions[i] ELSE winner)

PlatInit ==
    /\ bbActions = <<>>
    /\ bbIds = 0
    /\ bbGone = {}
    /\ bbRan = <<>>
    /\ plop = "new"

\* registerBackButtonAction(fn, priority)
RegisterBackButtonAction(p) ==
    /\ bbIds < MaxBack
    /\ bbIds' = bbIds + 1
    /\ bbActions' = Append(bbActions, [id |-> bbIds + 1, priority |-> p])
    /\ bbRan' = <<>>
    /\ plop' = "register"
    /\ UNCHANGED bbGone

\* the function registerBackButtonAction has returned for action id
Unregister(id) ==
    /\ id \in 1..bbIds
    /\ bbActions' = SelectSeq(bbActions, LAMBDA a : a.id # id)
    /\ bbGone' = bbGone \cup {id}
    /\ bbRan' = <<>>
    /\ plop' = "unregister"
    /\ UNCHANGED bbIds

\* runBackButtonAction()
RunBackButtonAction ==
    /\ LET winner == Winner(bbActions, 1, NoAction)
       IN  bbRan' = IF winner = NoAction THEN <<>> ELSE <<winner.id>>
    /\ plop' = "back"
    /\ UNCHANGED <<bbActions, bbIds, bbGone>>

PlatNext ==
    \/ \E p \in BackPriorities : RegisterBackButtonAction(p)
    \/ \E id \in 1..MaxBack : Unregister(id)
    \/ RunBackButtonAction

(***************************************************************************)
(* Specifications                                                          *)
(***************************************************************************)
\* the sliding item as constructed
SlideIdle == SlideInit

\* two controllers with detectors and equal priorities, not yet listening
PanIdle ==
    /\ PanInit
    /\ hasDetector = [c \in Ctl |-> TRUE]
    /\ priority = [c \in Ctl |-> 0]

\* a scroll view in native mode that has not scrolled
ScrollIdle ==
    /\ ScrollInit
    /\ svJs = FALSE

\* an empty radio group and a platform without back button actions
OthersIdle == RadioInit /\ PlatInit

\* the pan gesture controllers and their shared gesture controller
InitPan == PanInit /\ SlideIdle /\ ScrollIdle /\ OthersIdle
NextPan ==
    PanNext /\ UNCHANGED <<slideVars, scrollVars, animVars, radioVars, platVars,
                           svOpen>>
SpecPan == InitPan /\ [][NextPan]_vars

\* the sliding item
InitSliding == PanIdle /\ SlideInit /\ ScrollIdle /\ OthersIdle
NextSliding ==
    SlideNext /\ UNCHANGED <<panVars, scrollVars, animVars, radioVars, platVars,
                             svOpen>>
SpecSliding == InitSliding /\ [][NextSliding]_vars

\* the scroll view, in native or in synthetic mode
InitScroll == PanIdle /\ SlideIdle /\ ScrollInit /\ OthersIdle

\* the scroll view in the mode it was constructed in
NextSteady ==
    /\ SteadyNext
    /\ svOpen' = OpenAfter(svOpen, semit')
    /\ UNCHANGED <<panVars, slideVars, animVars, radioVars, platVars>>
SpecSteady == InitScroll /\ [][NextSteady]_vars

\* the scroll view whose mode and offset the application changes as well
NextScroll ==
    /\ ScrollNext
    /\ svOpen' = OpenAfter(svOpen, semit')
    /\ UNCHANGED <<panVars, slideVars, animVars, radioVars, platVars>>
SpecScroll == InitScroll /\ [][NextScroll]_vars

\* the scroll view in synthetic mode over a layout with room to coast to
\* rest, during its first drag and release; display frames keep coming
DecelNext ==
    \/ \E y \in TouchYs : svTouches = 0 /\ TouchStart(y)
    \/ \E y \in TouchYs, m \in LongMaxes : TouchMove(y, m)
    \/ \E y \in TouchYs, m \in LongMaxes : TouchEnd(y, m)
    \/ Stop
    \/ \E m \in LongMaxes : Frame(m)
    \/ Tick
InitDecel == PanIdle /\ SlideIdle /\ ScrollInit /\ svJs /\ OthersIdle
NextDecel ==
    /\ DecelNext
    /\ svOpen' = OpenAfter(svOpen, semit')
    /\ UNCHANGED <<panVars, slideVars, animVars, radioVars, platVars>>
SpecDecel ==
    /\ InitDecel
    /\ [][NextDecel]_vars
    /\ WF_vars(\E m \in LongMaxes :
                  /\ Frame(m)
                  /\ svOpen' = OpenAfter(svOpen, semit')
                  /\ UNCHANGED <<panVars, slideVars, animVars, radioVars,
                                 platVars>>)

\* one scrollTo call of two seconds on a display of 240 frames a second:
\* the time stamp, cut to frames of FRAME_MS, grows at every fourth step
BudgetNext ==
    \/ \E y \in Targets, d \in LongDurations :
           anims = <<>> /\ ScrollTo(y, d)
    \/ \E dt \in FrameDts :
           /\ anims # <<>> => (dt = 1 <=> anims[1].att % FAST_RATE = 0)
           /\ AnimFrame(dt)

\* the scroll view in native mode with scrollTo calls
InitAnim ==
    /\ PanIdle
    /\ SlideIdle
    /\ OthersIdle
    /\ \/ ScrollRest /\ ScrollFresh /\ svJs = FALSE
       \/ \E top \in Targets, q \in 0..END_FRAMES : AfterScroll(top, q)
NextAnim ==
    /\ AnimNext
    /\ svOpen' = OpenAfter(svOpen, semit')
    /\ UNCHANGED <<panVars, slideVars, radioVars, platVars>>
SpecAnim == InitAnim /\ [][NextAnim]_vars

NextBudget ==
    /\ BudgetNext
    /\ svOpen' = OpenAfter(svOpen, semit')
    /\ UNCHANGED <<panVars, slideVars, radioVars, platVars>>
SpecBudget == InitAnim /\ [][NextBudget]_vars

\* one long scroll burst or drag
InitBurst == InitScroll

NextBurst ==
    /\ BurstNext
    /\ svOpen' = OpenAfter(svOpen, semit')
    /\ UNCHANGED <<panVars, slideVars, animVars, radioVars, platVars>>

SpecBurst == InitBurst /\ [][NextBurst]_vars

\* a radio group and the buttons of its template
InitRadio == PanIdle /\ SlideIdle /\ ScrollIdle /\ RadioInit /\ PlatInit
NextRadio ==
    RadioNext /\ UNCHANGED <<panVars, slideVars, scrollVars, animVars, platVars,
                             svOpen>>
SpecRadio == InitRadio /\ [][NextRadio]_vars

\* the back button actions of the platform
InitPlat == PanIdle /\ SlideIdle /\ ScrollIdle /\ RadioInit /\ PlatInit
NextPlat ==
    PlatNext /\ UNCHANGED <<panVars, slideVars, scrollVars, animVars, radioVars,
                            svOpen>>
SpecPlat == InitPlat /\ [][NextPlat]_vars

Init == PanInit /\ SlideInit /\ ScrollInit /\ RadioInit /\ PlatInit
Next ==
    NextPan \/ NextSliding \/ NextSteady \/ NextScroll \/ NextDecel \/ NextAnim
        \/ NextBudget \/ NextBurst \/ NextRadio \/ NextPlat
Spec == Init /\ [][Next]_vars

(***************************************************************************)
(* Properties of the pan gesture controllers                               *)
(***************************************************************************)
Captured(c) == started[c] /\ captured[c]
Idle(c) == ~started[c] /\ ~captured[c]
StartedOnly(c) == started[c] /\ ~captured[c]
HoldsGrant(c) == gc.capturedID = c
Calls(name, c) == {i \in 1..Len(gc.log) :
                      gc.log[i][1] = name /\ gc.log[i][2] = c}
Fired(name) == {i \in 1..Len(cb) : cb[i][1] = name}

\* C1: two controllers that share the gesture controller are never both
\* Captured at once.
C1_NeverBothCaptured == ~(Captured(1) /\ Captured(2))

\* the gesture controller itself grants at most one capture, and a second
\* request while a grant is held is refused
C1_GrantIsExclusive ==
    \A c \in Ctl :
        (op.c = c /\ Calls("capture", c) # {}
            /\ \E d \in Ctl \ {c} : HoldsGrant(d))
        => ~gc.log[Max(Calls("capture", c))][3]

CallsIn(log, name, c) == {i \in 1..Len(log) :
                             log[i][1] = name /\ log[i][2] = c}
LastCaptureRefused(log, c) ==
    /\ CallsIn(log, "capture", c) # {}
    /\ ~log[Max(CallsIn(log, "capture", c))][3]

\* C2: pointerUp fires onDragEnd with the final sample if the session is
\* Captured and notCaptured otherwise, and leaves the controller Idle.
C2_PointerUpEndsSession ==
    [][\A c \in Ctl :
         (op'.name = "pointerUp" /\ op'.c = c)
         => /\ Captured(c) => cb' = << <<"onDragEnd", op'.ev>> >>
            /\ ~Captured(c) => cb' = << <<"notCaptured", op'.ev>> >>
            /\ ~started'[c] /\ ~captured'[c]]_vars

C2_Witness ==
    /\ op.name = "pointerUp"
    /\ cb = << <<"onDragEnd", op.ev>> >>
    /\ Idle(op.c)
    /\ \E d \in Ctl \ {op.c} : StartedOnly(d)

\* C3: a pointerMove of a started, uncaptured session in which the recognizer
\* detects a non-zero pan direction makes a capture attempt (a call of the
\* gesture delegate, when the controller has one); a refused attempt
\* aborts the session (not started, not captured, notCaptured fired), and the
\* controller makes no further capture attempt until a new pointerDown.
C3_RefusedCaptureAborts ==
    [][\A c \in Ctl :
         /\ (/\ op'.name = "pointerMove" /\ op'.c = c
             /\ started[c] /\ ~captured[c]
             /\ detDirty[c] /\ op'.in \in {"pan-", "pan+"})
            => /\ gestute[c] => CallsIn(gc'.log, "capture", c) # {}
               /\ LastCaptureRefused(gc'.log, c)
                  => /\ ~started'[c] /\ ~captured'[c]
                     /\ cb' = << <<"notCaptured", op'.ev>> >>
                     /\ refused'[c]
         /\ (refused[c] /\ op'.c = c /\ op'.name # "pointerDown")
            => CallsIn(gc'.log, "capture", c) = {}]_vars

C3_Witness ==
    /\ op.name = "pointerMove"
    /\ LastCaptureRefused(gc.log, op.c)
    /\ cb = << <<"notCaptured", op.ev>> >>
    /\ Idle(op.c) /\ refused[op.c]
    /\ \E d \in Ctl \ {op.c} : Captured(d) /\ HoldsGrant(d)

\* an abort is a pointerMove that fired notCaptured
Aborted == op.name = "pointerMove" /\ Fired("notCaptured") # {}

\* C4: abort, pointerUp and destroy of a controller that has a gesture
\* delegate each call release on it, and after any of the three the
\* controller holds no grant and no pending start request.
C4_Step ==
    \A c \in Ctl :
        (op'.c = c /\ (Aborted' \/ op'.name \in {"pointerUp", "destroy"}))
        => /\ gestute[c] => CallsIn(gc'.log, "release", c) # {}
           /\ gc'.capturedID # c
           /\ gc'.requestedStart[c] = NoPrio
C4_ReleaseOnAbortUpDestroy == [][C4_Step]_vars

C4_Witness ==
    /\ op.name = "pointerUp"
    /\ Fired("onDragEnd") # {}
    /\ Calls("release", op.c) # {}
    /\ gc.capturedID = NoId

\* C5: a controller is always Idle, Started or Captured (captured implies
\* started), and a pointerDown received while a session is started changes
\* nothing: no new session, no recognizer restart, no delegate call, no
\* callback.
C5_OneSessionPerController ==
    /\ [](\A c \in Ctl : captured[c] => started[c])
    /\ [][\A c \in Ctl :
            (started[c] /\ op'.name = "pointerDown" /\ op'.c = c)
            => /\ started' = started /\ captured' = captured
               /\ detDirty' = detDirty /\ detPan' = detPan
               /\ tracking' = tracking /\ writeTask' = writeTask
               /\ gc'.log = <<>>
               /\ gc'.capturedID = gc.capturedID
               /\ gc'.requestedStart = gc.requestedStart
               /\ cb' = <<>>]_vars

C5_Witness ==
    /\ op.name = "pointerDown" /\ op.in = "canStart"
    /\ op.ret = "undefined"
    /\ Captured(op.c)
    /\ gc.log = <<>> /\ cb = <<>>

\* C33: the callbacks of a session come in order: onDragStart opens the
\* captured part of a session, onDragMove comes only inside it, onDragEnd
\* closes it and leaves no deferred onDragMove behind; notCaptured comes only
\* to a session that is not captured and ends it; a deferred onDragMove is
\* pending only inside the captured part.
C33_Step ==
    \A c \in Ctl :
        op'.c = c =>
            /\ Len(cb') <= 1
            /\ Fired("onDragStart")' # {} =>
                   ~captured[c] /\ captured'[c] /\ started'[c]
            /\ Fired("onDragMove")' # {} => captured[c] /\ captured'[c]
            /\ Fired("onDragEnd")' # {} =>
                   /\ captured[c]
                   /\ ~captured'[c] /\ ~started'[c]
                   /\ writeTask'[c] = 0
            /\ Fired("notCaptured")' # {} =>
                   /\ ~captured[c]
                   /\ ~captured'[c] /\ ~started'[c]
                   /\ writeTask'[c] = 0
C33_CallbackOrder ==
    /\ [](\A c \in Ctl : writeTask[c] # 0 => captured[c])
    /\ [][C33_Step]_vars

\* a pointerUp has ended a captured session whose last move was still
\* waiting for the write phase
C33_Witness ==
    /\ op.name = "pointerUp"
    /\ op.in = "pending"
    /\ cb = << <<"onDragEnd", op.ev>> >>
    /\ writeTask[op.c] = 0

\* C34: a controller with a gesture delegate that is Captured holds the
\* gesture controller's grant.
C34_CapturedHoldsGrant ==
    \A c \in Ctl : gestute[c] /\ Captured(c) => HoldsGrant(c)

\* the recognizer of c has detected a pan of direction 0 in the session
DetectedNoPan(c) ==
    /\ hasDetector[c]
    /\ started[c] /\ ~captured[c]
    /\ ~detDirty[c] /\ detPan[c] = 0

\* C39: a pointerMove in which the recognizer detects a pan of direction 0
\* leaves the session started and uncaptured without a delegate call or a
\* callback; so does every later pointerMove of the session, and its
\* pointerUp fires notCaptured.
C39_Step ==
    \A c \in Ctl :
        /\ (/\ op'.name = "pointerMove" /\ op'.c = c
            /\ started[c] /\ ~captured[c]
            /\ \/ detDirty[c] /\ op'.in = "pan0"
               \/ DetectedNoPan(c))
           => /\ DetectedNoPan(c)'
              /\ gc'.log = <<>>
              /\ cb' = <<>>
        /\ (op'.name = "pointerUp" /\ op'.c = c /\ DetectedNoPan(c))
           => cb' = << <<"notCaptured", op'.ev>> >>
C39_NoPanNoCapture == [][C39_Step]_vars

\* a session in which a pan of direction 0 was detected has ended
C39_Witness ==
    /\ op.name = "pointerUp"
    /\ hasDetector[op.c]
    /\ ~detDirty[op.c] /\ detPan[op.c] = 0
    /\ cb = << <<"notCaptured", op.ev>> >>
    /\ \E d \in Ctl \ {op.c} : started[d]

\* C40: a controller that is not listening is Idle.
C40_NotListeningIdle ==
    \A c \in Ctl : ~isListening[c] => Idle(c)

(***************************************************************************)
(* Properties of the sliding item                                          *)
(***************************************************************************)
Moved == sop.name = "moveSliding" /\ ~sop.skipped
Sign(n) == IF n > 0 THEN 1 ELSE IF n < 0 THEN -1 ELSE 0
\* the drag offset startX - x of the last moveSliding, clamped by the sides
ClampedOffset ==
    LET raw == startX - sop.x
    IN  IF sides = SIDE_RIGHT /\ raw < 0 THEN 0
        ELSE IF sides = SIDE_LEFT /\ raw > 0 THEN 0
        ELSE raw

\* C6: a moveSliding whose clamped offset exceeds the right panel width w by
\* d > 0 stores and returns w + 0.55 d, one below -wLeft by d stores and
\* returns -wLeft - 0.55 d, and an offset within [-wLeft, w] is stored as is.
C6_Elasticity ==
    Moved =>
      LET c == ClampedOffset
          wR == optsWidthRightSide
          wL == optsWidthLeftSide
      IN  /\ sop.ret = openAmount
          /\ c > wR => ELASTIC_DEN * (openAmount - wR) = ELASTIC_NUM * (c - wR)
          /\ c < 0 - wL
             => ELASTIC_DEN * (openAmount + wL) = ELASTIC_NUM * (c + wL)
          /\ (0 - wL <= c /\ c <= wR) => openAmount = c

C6_Witness ==
    /\ Moved
    /\ optsWidthRightSide > 0
    /\ ClampedOffset > optsWidthRightSide + Px(SWIPE_MARGIN)
    /\ openAmount > optsWidthRightSide
    /\ openAmount < ClampedOffset

\* C7: with only a right panel openAmountPx is never negative, with only a
\* left panel never positive, and with both panels a moveSliding stores an
\* offset of the sign of startX - x.
C7_ClampBySides ==
    /\ sides = SIDE_RIGHT => openAmount >= 0
    /\ sides = SIDE_LEFT => openAmount <= 0
    /\ (sides = SIDE_BOTH /\ Moved) => Sign(openAmount) = Sign(startX - sop.x)

\* C8: after a moveSliding that stores a non-zero offset the state carries
\* the revealed bit of the offset's side, and that side's swipe bit exactly
\* when the offset's magnitude is at least the side's panel width plus
\* SWIPE_MARGIN.
C8_StateBits ==
    (Moved /\ openAmount # 0) =>
      /\ openAmount > 0
         => /\ HasBit(state, STATE_RIGHT) /\ ~HasBit(state, STATE_LEFT)
            /\ ~HasBit(state, STATE_SWIPE_LEFT)
            /\ HasBit(state, STATE_SWIPE_RIGHT)
               <=> openAmount >= optsWidthRightSide + Px(SWIPE_MARGIN)
      /\ openAmount < 0
         => /\ HasBit(state, STATE_LEFT) /\ ~HasBit(state, STATE_RIGHT)
            /\ ~HasBit(state, STATE_SWIPE_RIGHT)
            /\ HasBit(state, STATE_SWIPE_LEFT)
               <=> 0 - openAmount >= optsWidthLeftSide + Px(SWIPE_MARGIN)

C8_Witness ==
    /\ Moved
    /\ optsWidthLeftSide > 0
    /\ 0 - openAmount >= optsWidthLeftSide + Px(SWIPE_MARGIN)
    /\ HasBit(state, STATE_LEFT) /\ HasBit(state, STATE_SWIPE_LEFT)

C10_SettleAtRest ==
    (sop.name = "endSliding" /\ sop.v = 0) =>
      /\ (sop.pre > 0 /\ 2 * sop.pre > optsWidthRightSide)
         => openAmount = optsWidthRightSide
      /\ (sop.pre > 0 /\ 2 * sop.pre < optsWidthRightSide)
         => openAmount = 0
      /\ (sop.pre < 0 /\ 2 * (0 - sop.pre) > optsWidthLeftSide)
         => openAmount = 0 - optsWidthLeftSide
      /\ (sop.pre < 0 /\ 2 * (0 - sop.pre) < optsWidthLeftSide)
         => openAmount = 0

C10_Witness ==
    /\ sop.name = "endSliding" /\ sop.v = 0
    /\ sop.pre > 0 /\ 2 * sop.pre < optsWidthRightSide
    /\ openAmount = 0

\* C11: endSliding fires exactly one swipe notification, naming the swiped
\* side, if the state carries a swipe bit after settling, and none otherwise.
C11_SwipeNotification ==
    sop.name = "endSliding" =>
      /\ HasBit(state, STATE_SWIPE_RIGHT) => swipes = <<"right">>
      /\ HasBit(state, STATE_SWIPE_LEFT) => swipes = <<"left">>
      /\ (~HasBit(state, STATE_SWIPE_RIGHT) /\ ~HasBit(state, STATE_SWIPE_LEFT))
         => swipes = <<>>

\* C12: close() stores offset 0 and starts the 600ms auto-disable timeout;
\* the timeout cannot run before its delay has elapsed, sets the state to
\* Disabled when it runs, is removed only by running or by an ItemSliding
\* operation, and a startSliding leaves no timeout pending.
C12_AutoClose ==
    [][/\ sop'.name = "close"
          => /\ openAmount' = 0
             /\ timer' # 0 /\ timers' = {timer'} /\ due' = {}
       /\ sop'.name = "timer"
          => /\ state' = STATE_DISABLED
             /\ timers \ timers' \subseteq due
       /\ sop'.name = "startSliding" => (timers' = {} /\ timer' = 0)
       /\ timers' # timers
          => sop'.name \in {"timer", "startSliding", "moveSliding",
                            "endSliding", "close"}]_vars

\* a startSliding has cancelled a timeout that close() started less than
\* 600ms before
C12_Witness ==
    /\ sop.name = "startSliding"
    /\ sop.had = "close"
    /\ sop.pre = 0
    /\ timers = {} /\ timer = 0
    /\ state = STATE_ENABLED

\* C13: startSliding on a fully closed item marks the widths dirty and moves
\* the state to Enabled; on an item with a non-zero offset it changes neither
\* the state nor the width cache.
C13_StartSliding ==
    [][sop'.name = "startSliding"
       => IF openAmount = 0
          THEN optsDirty' /\ state' = STATE_ENABLED
          ELSE /\ state' = state
               /\ optsDirty' = optsDirty
               /\ optsWidthRightSide' = optsWidthRightSide
               /\ optsWidthLeftSide' = optsWidthLeftSide]_vars

C13_Witness ==
    /\ sop.name = "startSliding"
    /\ sop.pre > 0
    /\ ~optsDirty
    /\ state = STATE_RIGHT
    /\ optsWidthRightSide = openAmount

\* C14: startSliding(x0) on an item at rest with offset a (0, the right panel
\* width or minus the left panel width) sets the drag origin to x0 + a: a following moveSliding(x0) leaves the offset at a, and a
\* following moveSliding(x0 - k) with fresh widths works on the raw offset
\* a + k.
C14_ResumeFromRest ==
    [][(/\ sop.name = "startSliding" /\ sop'.name = "moveSliding"
        /\ openAmount \in {0, optsWidthRightSide, 0 - optsWidthLeftSide})
       => /\ sop'.x = sop.x => openAmount' = openAmount
          /\ ~sop'.skipped
             => /\ startX' - sop'.x = openAmount + (sop.x - sop'.x)
                /\ openAmount' = Elastic(ClampSides(sides,
                                     openAmount + (sop.x - sop'.x)),
                                   optsWidthRightSide, optsWidthLeftSide)]_vars

\* C15: a moveSliding with stale widths changes neither the offset nor the
\* state and only requests a frame callback; a frame callback reads the
\* widths only if they are stale and leaves them fresh, so the callbacks of
\* later moveSliding calls of the same stale period read nothing.
C15_StaleWidths ==
    [][/\ (sop'.name = "moveSliding" /\ optsDirty)
          => /\ sop'.skipped
             /\ openAmount' = openAmount /\ state' = state
             /\ timer' = timer /\ timers' = timers
             /\ optsWidthRightSide' = optsWidthRightSide
             /\ optsWidthLeftSide' = optsWidthLeftSide
             /\ optsDirty'
             /\ rafs' = rafs + 1
       /\ sop'.name = "optsWidthFrame"
          => /\ ~optsDirty'
             /\ ~optsDirty
                => /\ optsWidthRightSide' = optsWidthRightSide
                   /\ optsWidthLeftSide' = optsWidthLeftSide]_vars

\* a frame callback requested by a second moveSliding finds the widths fresh
C15_Witness ==
    /\ sop.name = "optsWidthFrame"
    /\ sop.skipped
    /\ ~optsDirty
    /\ dragging
    /\ openAmount = 0
    /\ optsWidthRightSide > 0

\* C16: at most one auto-disable timeout is pending, and it is the one whose
\* handle this._timer holds.
C16_OneTimer ==
    /\ Cardinality(timers) <= 1
    /\ timer # 0 => timers = {timer}
    /\ timer = 0 => timers = {}

\* close() on a closed item whose auto-disable timeout is still pending
C16_Witness ==
    /\ sop.name = "close"
    /\ sop.pre = 0
    /\ ~dragging
    /\ state # STATE_DISABLED
    /\ timers = {timer}

\* C17: with a zero width of the panel on the offset's side, endSliding
\* settles at 0 and getSlidingPercent yields a finite value.
C17_ZeroWidthGuarded ==
    /\ (sop.name = "endSliding"
        /\ \/ sop.pre > 0 /\ optsWidthRightSide = 0
           \/ sop.pre < 0 /\ optsWidthLeftSide = 0)
       => openAmount = 0
    /\ GetSlidingPercent.finite

\* the part of C17 that holds: endSliding settles at 0 on a zero width
C17_EndSettlesOnZeroWidth ==
    (sop.name = "endSliding"
     /\ \/ sop.pre > 0 /\ optsWidthRightSide = 0
        \/ sop.pre < 0 /\ optsWidthLeftSide = 0)
    => openAmount = 0

\* C35: a positive offset goes with the Right bit of the state, a negative
\* one with the Left bit.
C35_StateMatchesSign ==
    /\ openAmount > 0 => HasBit(state, STATE_RIGHT)
    /\ openAmount < 0 => HasBit(state, STATE_LEFT)

\* C36: an endSliding that follows its startSliding with nothing in between
\* fires no swipe notification.
C36_Step ==
    sop.name = "startSliding" /\ sop'.name = "endSliding" => swipes' = <<>>
C36_SwipeOfThisDrag == [][C36_Step]_vars

\* C37: a closed item that is not being dragged is Disabled or has its
\* auto-disable timeout pending.
C37_ClosedReturnsToDisabled ==
    openAmount = 0 /\ ~dragging =>
        state = STATE_DISABLED \/ (timer # 0 /\ timer \in timers)

\* the item was closed by close() while revealed and is waiting for its
\* timeout
C37_Witness ==
    /\ sop.name = "close"
    /\ sop.pre # 0
    /\ openAmount = 0 /\ ~dragging
    /\ state # STATE_DISABLED
    /\ timer \in timers

\* C38: the state is not Disabled while a drag is in progress.
C38_DragNeverDisabled == dragging => state # STATE_DISABLED

(***************************************************************************)
(* Properties of the scroll view                                           *)
(***************************************************************************)
Emitted(n) == \E i \in 1..Len(semit) : semit[i] = n

\* C18: in native mode every scroll event replaces the pending scroll-end
\* timer by a new one of 6 frames, so that while fewer than 6 frames have
\* passed since the last scroll event exactly one scroll-end is due, at the
\* sixth of them; scroll-end is emitted only by that timer, after 6 frames
\* without a scroll event, and leaves isScrolling false and the velocity 0.
C18_ScrollEndDebounced ==
    ~svJs =>
        /\ svop.name = "scroll" => svEndTmr = END_FRAMES
        /\ svPos # <<>> /\ svQuiet < END_FRAMES
               => svEndTmr = END_FRAMES - svQuiet
        /\ svQuiet = END_FRAMES => svEndTmr = 0
        /\ Emitted("scrollEnd") =>
               /\ svop.name = "scrollEnd"
               /\ svQuiet = END_FRAMES
               /\ semit = <<"scrollEnd">>
               /\ ~svScrolling
               /\ Fields.v = Still

\* a scroll-end after a burst of several scroll events
C18_Witness ==
    /\ ~svJs
    /\ svop.name = "scrollEnd"
    /\ Len(svPos) = MaxPos

\* C19: in synthetic mode a touch-start leaves no deceleration read task
\* pending, and no deceleration frame runs from a read task that was queued
\* before the last touch-start.
C19_TouchStartCancels ==
    svJs =>
        /\ ~svStale
        /\ svop.name = "touchStart" => ~svRead
        /\ svop.name = "decelerate" => ~svop.had

\* a second touch-start while a deceleration was in flight
C19_Witness ==
    /\ svJs
    /\ svop.name = "touchStart"
    /\ svop.had
    /\ svVel \notin {0, NAN}

\* C20: in synthetic mode the offset is never negative and never above a
\* scrollable height of the layout, and the offset a touch-move or a
\* deceleration frame writes is at most the cached scrollable height.
C20_OffsetClamped ==
    svJs =>
        /\ svT >= 0
        /\ \E m \in ScrollMaxes : ~Less(Dbl(m), Fields.t)
        /\ svop.name = "touchMove" /\ svPos # <<>>
               => ~Less(Dbl(svMax), Fields.t)
        /\ svop.name = "decelerate" => ~Less(Dbl(svMax), Fields.t)

\* a deceleration frame that is stopped by the scrollable height
C20_Witness ==
    /\ svJs
    /\ svop.name = "decelerate"
    /\ Fields.t = Dbl(svMax)
    /\ svMax > 0

\* C21: in synthetic mode every touch-move that follows a touch-start emits a
\* scroll notification.
C21_TouchMoveEmitsScroll ==
    svJs /\ svop.name = "touchMove" /\ svPos # <<>> => Emitted("scroll")

\* C22: a deceleration frame that goes on has multiplied the velocity by
\* 0.97; a frame stops the loop if the velocity is below
\* 0.12 or the offset is 0 or the scrollable height, and only if the
\* velocity is at most 0.12 or the offset is at such a boundary; the frame
\* that stops emits one scroll-end and leaves isScrolling false and the
\* velocity 0; and a pending deceleration always comes to an end.
C22_StepRule ==
    svop'.name = "decelerate" =>
        LET v == Times(Fields.v, Over(FromInt(FRICTION_NUM), FRICTION_DEN))
            atEdge == svFine'.t \in {Zero, Dbl(svMax')}
        IN  /\ svRead' => svFine'.v = v
            /\ Less(Size(v), CONTINUE_DECELERATION) \/ atEdge
                   => ~svRead'
            /\ ~svRead' =>
                   /\ ~Exceeds(v, CONTINUE_DECELERATION)
                          \/ atEdge
                   /\ semit' = <<"scroll", "scrollEnd">>
                   /\ ~svScrolling'
                   /\ svFine'.v = Zero
            /\ svRead' => ~Emitted("scrollEnd")'
C22_Momentum ==
    /\ [][C22_StepRule]_vars
    /\ svRead ~> ~svRead

\* the loop has coasted to rest inside the scrollable height
C22_Witness ==
    /\ svop.name = "decelerate"
    /\ ~svRead
    /\ svT > 0
    /\ svT < svMax

\* C27: the positions array never holds more than four dozen numbers.
C27_BufferShort == Entries <= 48

\* C32: scroll-start and scroll-end alternate, beginning with scroll-start:
\* a step emits a scroll-start only when none is unmatched and a scroll-end
\* only when one is.
C32_Step ==
    \A i \in 1..Len(semit') :
        LET before == OpenAfter(svOpen, SubSeq(semit', 1, i - 1))
        IN  /\ semit'[i] = "scrollStart" => ~before
            /\ semit'[i] = "scrollEnd" => before
C32_WellBracketed == [][C32_Step]_vars

\* C31: in synthetic mode a release that leaves isScrolling true is followed
\* by a scroll-end that leaves isScrolling false.
C31_ReleaseEnds ==
    (svJs /\ svop.name = "touchEnd" /\ svScrolling)
        ~> (Emitted("scrollEnd") /\ ~svScrolling)

(***************************************************************************)
(* Properties of scrollTo                                                  *)
(***************************************************************************)
Ended(a) == a.st \in {"done", "threw"}

\* C23: a scrollTo(0, 0, 300) from an offset that is not 0, which neither
\* stop() nor destroy() nor a second scrollTo has met, ends with the offset
\* at 0 and its completion signalled once.
C23_ReachesTarget ==
    \A i \in 1..Len(anims) :
        LET a == anims[i]
        IN  /\ Ended(a)
            /\ a.dur = 300
            /\ a.to = 0
            /\ a.from # Zero
            /\ ~a.cut
            /\ Len(anims) = 1
            => /\ a.done = 1
               /\ Fields.top = Zero

\* C24: no step of a scrollTo call throws, whether or not destroy() has run
\* since the call.
C24_HaltsGracefully ==
    \A i \in 1..Len(anims) : anims[i].st # "threw"

\* C25: a scrollTo call writes the offset in at most duration / 16 + 100
\* steps, and the step whose count exceeds that budget ends the call: it
\* does not write, isScrolling is false and completion is signalled once.
C25_Budget ==
    \A i \in 1..Len(anims) :
        LET a == anims[i]
            budget16 == a.dur + BUDGET_MS * BUDGET_EXTRA
        IN  /\ BUDGET_MS * a.wrote <= budget16
            /\ BUDGET_MS * a.att > budget16 =>
                   /\ a.st = "done"
                   /\ a.done = 1
                   /\ a.wrote < a.att
                   /\ ~svScrolling

\* a call that the budget has ended short of its target
C25_Witness ==
    /\ Len(anims) = 1
    /\ BUDGET_MS * anims[1].att > anims[1].dur + BUDGET_MS * BUDGET_EXTRA
    /\ anims[1].st = "done"
    /\ anims[1].wrote = anims[1].att - 1
    /\ svElTop # anims[1].to

\* C26: a scrollTo call writes the offset no more once a second scrollTo has
\* been called.
C26_NoCompetingWriters ==
    \A i \in 1..Len(anims) : ~anims[i].late

\* C28: a scrollTo(0, y, 0) that neither stop() nor destroy() nor a second
\* scrollTo has met ends at its first step with the offset y and its
\* completion signalled once.
C28_ZeroDuration ==
    \A i \in 1..Len(anims) :
        LET a == anims[i]
        IN  /\ a.dur = 0
            /\ a.st # "wait"
            /\ ~a.cut
            /\ Len(anims) = 1
            => /\ a.st = "done"
               /\ a.att = 1
               /\ a.done = 1
               /\ Fields.t = Dbl(a.to)

(***************************************************************************)
(* Properties of the radio group                                           *)
(***************************************************************************)
CheckedLive == {b \in Live : rbChecked[b]}

\* C29: at most one button of the group is checked, and after a click on a
\* button that button is the checked one.
C29_SingleChecked ==
    /\ Cardinality(CheckedLive) <= 1
    /\ rdop.name = "click" => CheckedLive = {rdop.b}

(***************************************************************************)
(* Properties of the back button actions                                   *)
(***************************************************************************)
\* the registered actions no other registered action outranks: none has a
\* higher priority, none of the same priority was registered later
Top ==
    {i \in 1..Len(bbActions) :
        \A j \in 1..Len(bbActions) :
            /\ bbActions[j].priority <= bbActions[i].priority
            /\ bbActions[j].priority = bbActions[i].priority => j <= i}

\* C30: the back button runs exactly the registered action of the highest
\* priority, among equals the one registered last; it runs nothing when no
\* action is registered, and never an action that was unregistered.
C30_HighestPriorityRuns ==
    plop = "back" =>
        /\ bbActions = <<>> => bbRan = <<>>
        /\ bbActions # <<>> =>
               /\ Len(bbRan) = 1
               /\ \E i \in Top : bbRan[1] = bbActions[i].id
        /\ \A k \in 1..Len(bbRan) : bbRan[k] \notin bbGone

C30_Witness ==
    /\ plop = "back"
    /\ Len(bbActions) = 2
    /\ bbGone # {}
    /\ bbActions[1].priority = bbActions[2].priority
    /\ bbRan = <<bbActions[2].id>>

====
